---- MODULE Spec2Model ----
(***************************************************************************)
(* git-commit-ai: the generation pipeline of llm.py                        *)
(* (generate_commit_messages and what it calls: the result cache, the two  *)
(* remote clients, the response parser, the local heuristic generator),    *)
(* the repository inspector of git_utils.py and the generate command of    *)
(* cli.py.                                                                 *)
(*                                                                         *)
(* Python str values are TLA+ strings; Len, SubSeq, Head, Tail and \o work *)
(* on them character by character.  The emoji of the gitmoji style are     *)
(* written as their ASCII short codes (":bug:"), one code per emoji.       *)
(***************************************************************************)
EXTENDS Integers, Sequences, FiniteSets, TLC

VARIABLES
    diff,             \* request: the staged diff text
    changed_files,    \* request: list of FileChange
    num_suggestions,  \* request: requested count
    style,            \* request: style name
    now,              \* wall clock, seconds (time.time())
    ticks,            \* number of clock advances so far
    cache,            \* CACHE_DIR: cache key -> entry file [content, mtime]
    pc,               \* position inside generate_commit_messages
    cached,           \* value returned by get_cached_result
    looked_at,        \* the entry as get_cached_result found it
    attempt,          \* call_llm7_api: loop variable
    outcomes,         \* call_llm7_api: what each attempt of this call met
    response,         \* generate_commit_messages: response
    messages,         \* generate_commit_messages: messages
    a_messages,       \* analyze_and_generate_messages: messages
    a_num,            \* analyze_and_generate_messages: num
    a_site,           \* which call of analyze_and_generate_messages is running
    gi,               \* analyze_and_generate_messages: position in generic
    result,           \* what generate_commit_messages returned
    effects,          \* observable effects of the current request
    last_saved,       \* the list save_to_cache wrote into the entry, while intact
    requests,         \* generation requests started so far
    tampered,         \* the entry file is as written from outside
    repo,             \* the git repository the command runs in
    cli,              \* cli.generate: options, position, what it did
    probe             \* a second input or an earlier result, for comparison

vars == <<diff, changed_files, num_suggestions, style, now, ticks, cache, pc,
          cached, looked_at, attempt, outcomes, response, messages, a_messages, a_num,
          a_site, gi, result, effects, last_saved, requests, tampered,
          repo, cli, probe>>

-----------------------------------------------------------------------------
(* Bounds of the model *)

MaxRequests == 2   \* generation requests per behaviour
MaxTicks == 1      \* clock advances per behaviour

-----------------------------------------------------------------------------
(* Python str operations *)

\* p in s
Contains(s, p) ==
    \E i \in 1..(Len(s) - Len(p) + 1) : SubSeq(s, i, i + Len(p) - 1) = p

\* s.endswith(p)
EndsWith(s, p) ==
    Len(s) >= Len(p) /\ SubSeq(s, Len(s) - Len(p) + 1, Len(s)) = p

EndsWithAny(s, ps) == \E p \in ps : EndsWith(s, p)

LowerChar(c) ==
    CASE c = "A" -> "a" [] c = "B" -> "b" [] c = "C" -> "c" [] c = "D" -> "d"
      [] c = "E" -> "e" [] c = "F" -> "f" [] c = "G" -> "g" [] c = "H" -> "h"
      [] c = "I" -> "i" [] c = "J" -> "j" [] c = "K" -> "k" [] c = "L" -> "l"
      [] c = "M" -> "m" [] c = "N" -> "n" [] c = "O" -> "o" [] c = "P" -> "p"
      [] c = "Q" -> "q" [] c = "R" -> "r" [] c = "S" -> "s" [] c = "T" -> "t"
      [] c = "U" -> "u" [] c = "V" -> "v" [] c = "W" -> "w" [] c = "X" -> "x"
      [] c = "Y" -> "y" [] c = "Z" -> "z" [] OTHER -> c

\* s.lower()
RECURSIVE LowerRange(_, _, _)
LowerRange(s, a, b) ==
    IF a > b THEN ""
    ELSE IF a = b THEN LowerChar(SubSeq(s, a, a))
    ELSE LowerRange(s, a, (a + b) \div 2) \o LowerRange(s, (a + b) \div 2 + 1, b)

Lower(s) == LowerRange(s, 1, Len(s))

\* s.count(p): non-overlapping occurrences, left to right
RECURSIVE CountFrom(_, _, _)
CountFrom(s, p, from) ==
    LET M == {i \in from..(Len(s) - Len(p) + 1) : SubSeq(s, i, i + Len(p) - 1) = p}
    IN IF M = {} THEN 0
       ELSE LET i == CHOOSE k \in M : \A m \in M : k <= m
            IN 1 + CountFrom(s, p, i + Len(p))

Count(s, p) == CountFrom(s, p, 1)

\* s.rfind(c) + 1 (0 when c does not occur)
LastIndexOf(s, c) ==
    LET I == {i \in 1..Len(s) : SubSeq(s, i, i) = c}
    IN IF I = {} THEN 0 ELSE CHOOSE i \in I : \A k \in I : k <= i

\* Path(p).name
PathName(p) == SubSeq(p, LastIndexOf(p, "/") + 1, Len(p))

\* Path(p).stem: the name without its last suffix
PathStem(p) ==
    LET name == PathName(p)
        j == LastIndexOf(name, ".")
    IN IF 1 < j /\ j < Len(name) THEN SubSeq(name, 1, j - 1) ELSE name

\* "sep".join(parts)
RECURSIVE Join(_, _)
Join(parts, sep) ==
    IF parts = <<>> THEN ""
    ELSE IF Len(parts) = 1 THEN parts[1]
    ELSE parts[1] \o sep \o Join(Tail(parts), sep)

\* x in list
InList(x, list) == \E i \in 1..Len(list) : list[i] = x

\* list(dict.fromkeys(list)): first occurrences, in order
RECURSIVE Dedupe(_)
Dedupe(list) ==
    IF list = <<>> THEN <<>>
    ELSE LET init == Dedupe(SubSeq(list, 1, Len(list) - 1))
             last == list[Len(list)]
         IN IF InList(last, init) THEN init ELSE Append(init, last)

\* list[:n] for n >= 0
Take(list, n) == SubSeq(list, 1, IF n < Len(list) THEN n ELSE Len(list))

-----------------------------------------------------------------------------
(* Python values that are not always str *)

PyNone == [kind |-> "none"]
PyStr(s) == [kind |-> "str", s |-> s]
PyList(l) == [kind |-> "list", items |-> l]
PyInt(n) == [kind |-> "int", n |-> n]
PyDict(k, v) == [kind |-> "dict", key |-> k, val |-> v]
PyEmptyDict == [kind |-> "dict0"]

\* bool(v)
Truthy(v) ==
    CASE v.kind = "none" -> FALSE
      [] v.kind = "str" -> v.s # ""
      [] v.kind = "list" -> v.items # <<>>
      [] v.kind = "int" -> v.n # 0
      [] v.kind = "dict" -> TRUE
      [] v.kind = "dict0" -> FALSE

-----------------------------------------------------------------------------
(* Program constants *)

CACHE_TTL_SECONDS == 3600
MAX_RETRIES == 2          \* call_llm7_api: max_retries
MAX_NUM == 10             \* cli.generate: --num max
PROMPT_DIFF_LIMIT == 5000 \* generate_commit_messages: diff cut for the prompt

Styles == {"conventional", "gitmoji", "simple"}

-----------------------------------------------------------------------------
(* models.FileChange and the request inputs of the model *)

FileChange(path, status) ==
    [path |-> path, status |-> status, additions |-> 0, deletions |-> 0]

\* the characters of s with backslash, newline and the quote q escaped
RECURSIVE Escaped(_, _)
Escaped(s, q) ==
    IF s = "" THEN ""
    ELSE LET c == Head(s)
         IN (IF c = "\\" THEN "\\\\"
             ELSE IF c = "\n" THEN "\\n"
             ELSE IF c = q THEN "\\" \o c
             ELSE c) \o Escaped(Tail(s), q)

\* repr(str): in double quotes when s holds ' and no ", else in single quotes
StrRepr(s) ==
    IF Contains(s, "'") /\ ~Contains(s, "\"")
    THEN "\"" \o Escaped(s, "\"") \o "\""
    ELSE "'" \o Escaped(s, "'") \o "'"

\* repr(FileChange): pydantic's "Name(field=value, ...)"
FileChangeRepr(fc) ==
    "FileChange(path=" \o StrRepr(fc.path) \o ", status=" \o StrRepr(fc.status)
        \o ", additions=" \o ToString(fc.additions)
        \o ", deletions=" \o ToString(fc.deletions) \o ")"

\* str(list): the reprs of the elements between brackets
ListRepr(files) ==
    "[" \o Join([i \in 1..Len(files) |-> FileChangeRepr(files[i])], ", ") \o "]"

\* staged changes of the model: the diff text and the list of changed files
StagedChanges ==
    { [diff |-> "", files |-> <<>>],
      [diff |-> "\n+x = 1", files |-> <<FileChange("auth/login.py", "added")>>],
      [diff |-> "diff --git a/auth/login.py b/auth/login.py\nnew file mode 100644\nindex 0000000..e69de29\n--- /dev/null\n+++ b/auth/login.py\n@@ -0,0 +1 @@\n+x = 1",
       files |-> <<FileChange("auth/login.py", "added")>>],
      [diff |-> "\n-fix the bug\n-pass",
       files |-> <<FileChange("tests/test_api.py", "modified"),
                   FileChange("README.md", "modified")>>] }

NumRange == 1..MAX_NUM

-----------------------------------------------------------------------------
(* Result cache: get_cache_key, get_cached_result, save_to_cache *)

\* the count left out of the hashed string
get_cache_key_no_num(d, files, st, num) == d \o ListRepr(files) \o st

\* SHA-256 is taken as injective: the key is the hashed string itself.
get_cache_key(d, files, st, num) == d \o ListRepr(files) \o st \o ToString(num)

\* The text of an entry file is a sequence of JSON tokens.
Punct(p) == [t |-> "punct", v |-> p]
StrTok(s) == [t |-> "str", v |-> s]
BytesTok == [t |-> "bytes", v |-> ""]   \* bytes that do not decode as text

IsPunct(tok, p) == tok.t = "punct" /\ tok.v = p

\* json.dump of a list of str: "s1", "s2", ...
RECURSIVE StrListTokens(_)
StrListTokens(list) ==
    IF list = <<>> THEN <<>>
    ELSE IF Len(list) = 1 THEN <<StrTok(list[1])>>
    ELSE <<StrTok(list[1]), Punct(",")>> \o StrListTokens(Tail(list))

\* json.dump with the member named "message": what is written under that name
\* is not found under "messages" again
json_dump_message(msgs) ==
    <<Punct("{"), StrTok("message"), Punct(":"), Punct("[")>>
        \o StrListTokens(msgs) \o <<Punct("]"), Punct("}")>>

\* json.dump({"messages": msgs}, f)
json_dump(msgs) ==
    <<Punct("{"), StrTok("messages"), Punct(":"), Punct("[")>>
        \o StrListTokens(msgs) \o <<Punct("]"), Punct("}")>>

JsonFail == [ok |-> FALSE, value |-> PyNone]
JsonOk(v) == [ok |-> TRUE, value |-> v]

IsStrList(toks) ==
    /\ Len(toks) = 0 \/ Len(toks) % 2 = 1
    /\ \A i \in 1..Len(toks) :
          IF i % 2 = 1 THEN toks[i].t = "str" ELSE IsPunct(toks[i], ",")

\* a JSON string or a JSON array of strings
JsonFlat(toks) ==
    IF Len(toks) = 1 /\ toks[1].t = "str" THEN JsonOk(PyStr(toks[1].v))
    ELSE IF /\ Len(toks) >= 2
            /\ IsPunct(toks[1], "[")
            /\ IsPunct(toks[Len(toks)], "]")
            /\ IsStrList(SubSeq(toks, 2, Len(toks) - 1))
         THEN LET mid == SubSeq(toks, 2, Len(toks) - 1)
              IN JsonOk(PyList([i \in 1..((Len(mid) + 1) \div 2) |-> mid[2 * i - 1].v]))
         ELSE JsonFail

\* json.load(f) for the JSON texts of the model: a string, an array of
\* strings, the empty object, an object with one member whose value is a
\* string or an array of strings; every other token sequence (every torn
\* prefix of a written entry among them) is a JSONDecodeError.
json_load(toks) ==
    IF JsonFlat(toks).ok THEN JsonFlat(toks)
    ELSE IF Len(toks) = 2 /\ IsPunct(toks[1], "{") /\ IsPunct(toks[2], "}")
         THEN JsonOk(PyEmptyDict)
    ELSE IF /\ Len(toks) >= 5
            /\ IsPunct(toks[1], "{")
            /\ toks[2].t = "str"
            /\ IsPunct(toks[3], ":")
            /\ IsPunct(toks[Len(toks)], "}")
            /\ JsonFlat(SubSeq(toks, 4, Len(toks) - 1)).ok
         THEN JsonOk(PyDict(toks[2].v, JsonFlat(SubSeq(toks, 4, Len(toks) - 1)).value))
         ELSE JsonFail

\* data.get(k, default) on a dict
dict_get(d, k, default) ==
    IF d.kind = "dict" /\ d.key = k THEN d.val ELSE default

\* the comparison with >= in place of >: an entry expires at the age of the TTL
Expired_at_ttl(file) == now - file.mtime >= CACHE_TTL_SECONDS

\* time.time() - cache_file.stat().st_mtime > CACHE_TTL_SECONDS
Expired(file) == now - file.mtime > CACHE_TTL_SECONDS

\* an entry file
File(content, mtime) == [content |-> content, mtime |-> mtime, readable |-> TRUE]

\* get_cached_result(cache_key): what it returns or that it raises, and
\* whether it unlinked the file.
get_cached_result(cache_key) ==
    LET none == [raised |-> FALSE, value |-> PyNone, unlink |-> FALSE]
    IN IF cache_key \notin DOMAIN cache THEN none
       ELSE LET file == cache[cache_key]
            IN IF Expired(file) THEN [none EXCEPT !.unlink = TRUE]
               ELSE IF ~file.readable THEN none               \* IOError
               ELSE IF \E i \in 1..Len(file.content) : file.content[i].t = "bytes"
                    THEN [none EXCEPT !.raised = TRUE]        \* UnicodeDecodeError
               ELSE LET data == json_load(file.content)
                    IN IF ~data.ok THEN none                  \* JSONDecodeError
                       ELSE IF data.value.kind \in {"dict", "dict0"}
                            THEN [none EXCEPT !.value =
                                     dict_get(data.value, "messages", PyList(<<>>))]
                            ELSE [none EXCEPT !.raised = TRUE] \* AttributeError

\* the cache directory without the entry of cache_key
Unlink(dir, cache_key) == [k \in DOMAIN dir \ {cache_key} |-> dir[k]]

WriteIO == {"ok", "mkdir_fails", "open_fails", "write_fails"}

\* save_to_cache(cache_key, msgs) when the file system answers `io` (a failing
\* write stops after `cut` tokens): that it raises, and the directory after it.
save_to_cache(cache_key, msgs, io, cut) ==
    CASE io = "mkdir_fails" -> [raised |-> TRUE, dir |-> cache]
      [] io = "open_fails" -> [raised |-> FALSE, dir |-> cache]
      [] io = "write_fails" ->
            [raised |-> FALSE,
             dir |-> (cache_key :> File(SubSeq(json_dump(msgs), 1, cut), now)) @@ cache]
      [] io = "ok" ->
            [raised |-> FALSE,
             dir |-> (cache_key :> File(json_dump(msgs), now)) @@ cache]

\* a failing write of the pipeline stops before the first message
TornCut == Len(json_dump(<<>>)) - 2

-----------------------------------------------------------------------------
(* Response parser: parse_commit_messages *)

Whitespace == {" ", "\t", "\n", "\r"}
Digits == {"0", "1", "2", "3", "4", "5", "6", "7", "8", "9"}

\* s.lstrip(), also the effect of a leading \s* in a pattern
RECURSIVE LStrip(_)
LStrip(s) == IF s # "" /\ Head(s) \in Whitespace THEN LStrip(Tail(s)) ELSE s

RECURSIVE RStrip(_)
RStrip(s) ==
    IF s # "" /\ SubSeq(s, Len(s), Len(s)) \in Whitespace
    THEN RStrip(SubSeq(s, 1, Len(s) - 1)) ELSE s

\* s.strip()
Strip(s) == RStrip(LStrip(s))

\* s.split("\n")
RECURSIVE SplitLines(_)
SplitLines(s) ==
    LET I == {i \in 1..Len(s) : SubSeq(s, i, i) = "\n"}
    IN IF I = {} THEN <<s>>
       ELSE LET i == CHOOSE k \in I : \A m \in I : k <= m
            IN <<SubSeq(s, 1, i - 1)>> \o SplitLines(SubSeq(s, i + 1, Len(s)))

\* number of leading digits of s
RECURSIVE LeadingDigits(_)
LeadingDigits(s) ==
    IF s # "" /\ Head(s) \in Digits THEN 1 + LeadingDigits(Tail(s)) ELSE 0

\* re.sub(r"^[\d]+[\.\)]\s*", "", line)
StripNumbering(line) ==
    LET d == LeadingDigits(line)
    IN IF d >= 1 /\ d < Len(line) /\ SubSeq(line, d + 1, d + 1) \in {".", ")"}
       THEN LStrip(SubSeq(line, d + 2, Len(line)))
       ELSE line

\* re.sub(r"^[-\*]\s*", "", line)
StripBullet(line) ==
    IF line # "" /\ Head(line) \in {"-", "*"} THEN LStrip(Tail(line)) ELSE line

\* the cleaned text of one line
CleanLine(line) == Strip(StripBullet(StripNumbering(line)))

\* the loop without its break
RECURSIVE ParseLines_no_break(_, _, _)
ParseLines_no_break(lines, n, acc) ==
    IF lines = <<>> THEN acc
    ELSE LET line == Strip(Head(lines))
             cleaned == CleanLine(line)
         IN IF Len(line) > 5 /\ Len(cleaned) > 5
            THEN ParseLines_no_break(Tail(lines), n, Append(acc, cleaned))
            ELSE ParseLines_no_break(Tail(lines), n, acc)

\* the loop over the lines: acc is messages so far
RECURSIVE ParseLines(_, _, _)
ParseLines(lines, n, acc) ==
    IF lines = <<>> THEN acc
    ELSE LET line == Strip(Head(lines))
             cleaned == CleanLine(line)
         IN IF Len(line) > 5 /\ Len(cleaned) > 5
            THEN IF Len(acc) + 1 >= n THEN Append(acc, cleaned)
                 ELSE ParseLines(Tail(lines), n, Append(acc, cleaned))
            ELSE ParseLines(Tail(lines), n, acc)

parse_commit_messages(resp, n) == ParseLines(SplitLines(Strip(resp)), n, <<>>)

-----------------------------------------------------------------------------
(* Local heuristic generator: analyze_and_generate_messages *)

has_tests(files) == \E i \in 1..Len(files) : Contains(Lower(files[i].path), "test")
has_docs(files) ==
    \E i \in 1..Len(files) : EndsWithAny(files[i].path, {".md", ".rst", ".txt"})
has_config(files) ==
    \E i \in 1..Len(files) :
        EndsWithAny(files[i].path, {".json", ".yml", ".yaml", ".toml", ".ini"})

is_bugfix(d) ==
    Contains(Lower(d), "fix") \/ Contains(Lower(d), "bug") \/ Contains(Lower(d), "error")
is_feature(d) ==
    \/ Contains(d, "def ") \/ Contains(d, "class ") \/ Contains(d, "function ")
    \/ Contains(Lower(d), "feat")
is_refactor(d) == Contains(Lower(d), "refactor") \/ Contains(Lower(d), "rename")
is_security(d) ==
    \/ Contains(Lower(d), "security") \/ Contains(Lower(d), "auth")
    \/ Contains(Lower(d), "token")
is_performance(d) ==
    \/ Contains(Lower(d), "performance") \/ Contains(Lower(d), "optimize")
    \/ Contains(Lower(d), "cache")

additions(d) == Count(d, "\n+")
deletions(d) == Count(d, "\n-")

ConventionalMessages(d, files) ==
    LET primary_file == files[1]
        file_name == PathStem(primary_file.path)
        first ==
            IF is_bugfix(d)
            THEN <<"fix: resolve issue in " \o file_name,
                   "fix(" \o file_name \o "): correct error handling">>
            ELSE IF is_feature(d)
            THEN <<"feat: implement " \o file_name \o " functionality",
                   "feat(" \o file_name \o "): add new capabilities">>
            ELSE IF is_refactor(d)
            THEN <<"refactor: improve " \o file_name \o " structure",
                   "refactor(" \o file_name \o "): optimize code organization">>
            ELSE IF has_tests(files)
            THEN <<"test: add tests for " \o file_name,
                   "test(" \o file_name \o "): improve test coverage">>
            ELSE IF has_docs(files)
            THEN <<"docs: update " \o file_name \o " documentation",
                   "docs(" \o file_name \o "): improve documentation">>
            ELSE IF has_config(files)
            THEN <<"chore: update " \o file_name \o " configuration",
                   "config: modify " \o file_name \o " settings">>
            ELSE IF is_security(d)
            THEN <<"security: enhance " \o file_name \o " security",
                   "fix(security): address vulnerabilities in " \o file_name>>
            ELSE IF is_performance(d)
            THEN <<"perf: optimize " \o file_name \o " performance",
                   "perf(" \o file_name \o "): improve efficiency">>
            ELSE IF primary_file.status = "added"
            THEN <<"feat: add " \o file_name \o " module">>
            ELSE IF primary_file.status = "deleted"
            THEN <<"chore: remove " \o file_name>>
            ELSE <<"update: modify " \o file_name>>
    IN IF Len(files) > 1
       THEN Append(first, "feat: update " \o ToString(Len(files))
                              \o " files with improvements")
       ELSE first

GitmojiMessages(d, files) ==
    LET file_name == PathStem(files[1].path)
    IN IF is_bugfix(d) THEN <<":bug: fix: resolve issue in " \o file_name>>
       ELSE IF is_feature(d)
       THEN <<":sparkles: feat: add " \o file_name \o " functionality">>
       ELSE IF has_tests(files)
       THEN <<":white_check_mark: test: add " \o file_name \o " tests">>
       ELSE IF has_docs(files) THEN <<":memo: docs: update " \o file_name>>
       ELSE <<":wrench: chore: update " \o file_name>>

SimpleMessages(d, files) ==
    LET file_name == PathStem(files[1].path)
        first ==
            IF is_bugfix(d) THEN <<"Fix issue in " \o file_name>>
            ELSE IF is_feature(d) THEN <<"Add " \o file_name \o " functionality">>
            ELSE IF is_refactor(d) THEN <<"Refactor " \o file_name>>
            ELSE <<"Update " \o file_name>>
    IN IF additions(d) > deletions(d)
       THEN Append(first, "Add new code to " \o file_name)
       ELSE IF deletions(d) > additions(d)
       THEN Append(first, "Clean up " \o file_name)
       ELSE first

\* messages when the padding loop is reached: the contextual messages of
\* the style, duplicates removed
ContextMessages(d, files, st) ==
    Dedupe(IF files = <<>> THEN <<>>
           ELSE IF st = "conventional" THEN ConventionalMessages(d, files)
           ELSE IF st = "gitmoji" THEN GitmojiMessages(d, files)
           ELSE SimpleMessages(d, files))

\* a filler list whose order follows the clock
Generic_by_clock(st) ==
    IF st = "conventional"
    THEN IF now = 0
         THEN <<"chore: update project files", "feat: enhance functionality",
                "fix: resolve issues", "refactor: improve code quality">>
         ELSE <<"refactor: improve code quality", "fix: resolve issues",
                "feat: enhance functionality", "chore: update project files">>
    ELSE IF st = "gitmoji"
    THEN IF now = 0
         THEN <<":wrench: chore: update project", ":sparkles: feat: add improvements",
                ":bug: fix: resolve issues">>
         ELSE <<":bug: fix: resolve issues", ":sparkles: feat: add improvements",
                ":wrench: chore: update project">>
    ELSE IF now = 0
         THEN <<"Update project files", "Make improvements", "Fix issues">>
         ELSE <<"Fix issues", "Make improvements", "Update project files">>

\* the generic filler list of the style
Generic(st) ==
    IF st = "conventional"
    THEN <<"chore: update project files", "feat: enhance functionality",
           "fix: resolve issues", "refactor: improve code quality">>
    ELSE IF st = "gitmoji"
    THEN <<":wrench: chore: update project", ":sparkles: feat: add improvements",
           ":bug: fix: resolve issues">>
    ELSE <<"Update project files", "Make improvements", "Fix issues">>

\* generate_fallback_messages(changed_files, num, style): the subjects
generate_fallback_messages(files, num, st) ==
    LET conv == st = "conventional"
        WithStatus(x) == {i \in 1..Len(files) : files[i].status = x}
        added == WithStatus("added")
        modified == WithStatus("modified")
        deleted == WithStatus("deleted")
        n == ToString(Len(files))
        single ==
            LET file == files[1]
                base_name == PathStem(file.path)
            IN IF conv
               THEN IF file.status = "added" THEN <<"feat: add " \o base_name>>
                    ELSE IF file.status = "deleted"
                    THEN <<"chore: remove " \o base_name>>
                    ELSE <<"fix: update " \o base_name>>
               ELSE IF file.status = "added" THEN <<"add " \o base_name>>
                    ELSE IF file.status = "deleted" THEN <<"remove " \o base_name>>
                    ELSE <<"update " \o base_name>>
        multiple ==
            (IF added # {} /\ modified = {} /\ deleted = {}
             THEN <<(IF conv THEN "feat: add " ELSE "add ")
                        \o ToString(Cardinality(added)) \o " new files">>
             ELSE <<>>)
            \o (IF modified # {} /\ added = {} /\ deleted = {}
                THEN <<(IF conv THEN "fix: update " ELSE "update ")
                           \o ToString(Cardinality(modified)) \o " files">>
                ELSE <<>>)
            \o <<(IF conv THEN "chore: update " ELSE "update ") \o n \o " files">>
        first == IF files = <<>> THEN <<"update code">>
                 ELSE IF Len(files) = 1 THEN single
                 ELSE multiple
        filler == IF conv THEN "chore: update project files"
                  ELSE "update project files"
        padded == first \o [i \in 1..(IF num > Len(first) THEN num - Len(first) ELSE 0)
                               |-> filler]
    IN Take(padded, num)

-----------------------------------------------------------------------------
(* Remote suggestion clients: call_llm7_api, call_apifreellm *)

\* texts a service may answer with
TextGood == "1. fix: login\n2) ok\n- feat: add token\n* chore: tidy up"
TextShort == "\n- ok\n12. no\n"

\* JSON values found where the message text is expected
ContentValues == {PyNone, PyStr(""), PyStr(TextGood), PyStr(TextShort), PyInt(5)}

Outcome(kind, content) == [kind |-> kind, content |-> content]

\* what one POST to the primary endpoint can meet
PrimaryOutcomes ==
    {Outcome(k, PyNone) : k \in {"exception", "429", "other", "200_badjson",
                                 "200_nochoices", "200_nomessage"}}
        \cup {Outcome("200_content", c) : c \in ContentValues}

\* the retry loop giving up at the first 429
llm7_attempt_no_retry(att, o) ==
    CASE o.kind = "200_content" ->
            [returns |-> TRUE, value |-> o.content, sleep |-> 0]
      [] o.kind \in {"200_nochoices", "429"} ->
            [returns |-> TRUE, value |-> PyNone, sleep |-> 0]
      [] OTHER ->
            IF att < MAX_RETRIES - 1
            THEN [returns |-> FALSE, value |-> PyNone, sleep |-> 1]
            ELSE [returns |-> TRUE, value |-> PyNone, sleep |-> 0]

\* the retry loop with the 429 delay taken only before a further attempt
llm7_attempt_429_guarded(att, o) ==
    CASE o.kind = "200_content" ->
            [returns |-> TRUE, value |-> o.content, sleep |-> 0]
      [] o.kind = "200_nochoices" ->
            [returns |-> TRUE, value |-> PyNone, sleep |-> 0]
      [] o.kind = "429" ->
            IF att < MAX_RETRIES - 1
            THEN [returns |-> FALSE, value |-> PyNone, sleep |-> 2 + att]
            ELSE [returns |-> TRUE, value |-> PyNone, sleep |-> 0]
      [] OTHER ->
            IF att < MAX_RETRIES - 1
            THEN [returns |-> FALSE, value |-> PyNone, sleep |-> 1]
            ELSE [returns |-> TRUE, value |-> PyNone, sleep |-> 0]

\* one pass of the retry loop of call_llm7_api: attempt number att meets o.
\* returns: the function returns value; otherwise the loop continues after
\* sleeping `sleep` seconds (and falls out of the loop after the last pass).
llm7_attempt(att, o) ==
    CASE o.kind = "200_content" ->
            [returns |-> TRUE, value |-> o.content, sleep |-> 0]
      [] o.kind = "200_nochoices" ->   \* "choices" absent or empty
            [returns |-> TRUE, value |-> PyNone, sleep |-> 0]
      [] o.kind = "429" ->
            [returns |-> FALSE, value |-> PyNone, sleep |-> 2 + att]
      [] OTHER ->  \* another status, or an exception (json(), a key, transport)
            IF att < MAX_RETRIES - 1
            THEN [returns |-> FALSE, value |-> PyNone, sleep |-> 1]
            ELSE [returns |-> TRUE, value |-> PyNone, sleep |-> 0]

\* what the single POST to the secondary endpoint can meet
SecondaryOutcomes ==
    {Outcome(k, PyNone) : k \in {"exception", "non200", "200_badjson",
                                 "200_dict_notext", "200_other"}}
        \cup {Outcome("200_dict_text", c) : c \in ContentValues}
        \cup {Outcome("200_str", PyStr(t)) : t \in {"", TextGood}}

\* call_apifreellm when its POST meets o
call_apifreellm(o) ==
    IF o.kind \in {"200_dict_text", "200_str"} THEN o.content ELSE PyNone

-----------------------------------------------------------------------------
(* generate_commit_messages, step by step *)

NoEffects ==
    [primary_posts |-> 0, secondary_posts |-> 0, primary_returned |-> FALSE,
     primary_value |-> PyNone, secondary_value |-> PyNone,
     heuristic_calls |-> 0, saves |-> 0]

NotLooked == [present |-> FALSE, file |-> File(<<>>, 0), saved |-> PyNone, at |-> 0]

\* cache_key of the request
Key == get_cache_key(diff, changed_files, style, num_suggestions)

\* diff as analyze_and_generate_messages receives it (cut for the prompt)
PromptDiff ==
    IF Len(diff) > PROMPT_DIFF_LIMIT
    THEN SubSeq(diff, 1, PROMPT_DIFF_LIMIT) \o "\n... (truncated)"
    ELSE diff

\* the characters of s, as iterating a str yields them
Chars(s) == [i \in 1..Len(s) |-> SubSeq(s, i, i)]

\* the subjects of [CommitMessage(subject=msg, ...) for msg in v]
Subjects(v) == IF v.kind = "str" THEN Chars(v.s) ELSE v.items

\* nothing has run yet: the clock at 0, the cache empty, no local set
Idle ==
    /\ now = 0
    /\ ticks = 0
    /\ cache = <<>>
    /\ pc = "start"
    /\ cached = PyNone
    /\ looked_at = NotLooked
    /\ attempt = 0
    /\ outcomes = <<>>
    /\ response = PyNone
    /\ messages = <<>>
    /\ a_messages = <<>>
    /\ a_num = 0
    /\ a_site = 0
    /\ gi = 0
    /\ result = PyNone
    /\ effects = NoEffects
    /\ last_saved = PyNone
    /\ requests = 1
    /\ tampered = FALSE

\* the pipeline is called directly: no repository, no command line
NoRepo == [is_repo |-> FALSE]
NoCli == [pc |-> "none"]
NoProbe == [kind |-> "none"]

Init ==
    /\ \E c \in StagedChanges : diff = c.diff /\ changed_files = c.files
    /\ num_suggestions \in NumRange
    /\ style \in Styles
    /\ Idle
    /\ repo = NoRepo
    /\ cli = NoCli
    /\ probe = NoProbe

request == <<diff, changed_files, num_suggestions, style>>
clock == <<now, ticks>>
analysis == <<a_messages, a_num, a_site, gi>>
entry == <<cache, last_saved, tampered>>
driver == <<repo, cli, probe>>

\* cached = get_cached_result(cache_key)
GetCachedResult ==
    /\ pc = "start"
    /\ LET r == get_cached_result(Key)
       IN /\ cache' = IF r.unlink THEN Unlink(cache, Key) ELSE cache
          /\ last_saved' = IF r.unlink THEN PyNone ELSE last_saved
          /\ tampered' = IF r.unlink THEN FALSE ELSE tampered
          /\ IF r.raised
             THEN pc' = "raised" /\ cached' = cached
             ELSE pc' = "cached" /\ cached' = r.value
    /\ looked_at' = IF Key \in DOMAIN cache
                    THEN [present |-> TRUE, file |-> cache[Key],
                          saved |-> last_saved, at |-> now]
                    ELSE NotLooked
    /\ UNCHANGED <<request, driver, clock, attempt, outcomes, response, messages,
                   analysis, result, effects, requests>>

\* the lookup's result ignored: every request goes on to the remote stage
CheckCached_ignored ==
    /\ pc = "cached"
    /\ result' = result
    /\ pc' = "primary"
    /\ UNCHANGED <<request, driver, clock, entry, cached, looked_at, attempt, outcomes,
                   response, messages, analysis, effects, requests>>

\* if cached: return the cached subjects; otherwise build the prompt and go on
CheckCached ==
    /\ pc = "cached"
    /\ IF Truthy(cached)
       THEN /\ result' = PyList(Subjects(cached))
            /\ pc' = "returned"
       ELSE /\ result' = result
            /\ pc' = "primary"
    /\ UNCHANGED <<request, driver, clock, entry, cached, looked_at, attempt, outcomes,
                   response, messages, analysis, effects, requests>>

\* one pass of the loop of call_llm7_api: a POST and what follows from it
PrimaryAttempt ==
    /\ pc = "primary"
    /\ \E o \in PrimaryOutcomes :
          LET step == llm7_attempt(attempt, o)
              ends == step.returns \/ attempt + 1 >= MAX_RETRIES
          IN /\ outcomes' = Append(outcomes, [outcome |-> o, slept |-> step.sleep])
             /\ IF ends
                THEN /\ response' = step.value
                     /\ pc' = "primary_returned"
                     /\ attempt' = attempt
                     /\ effects' = [effects EXCEPT
                                       !.primary_posts = @ + 1,
                                       !.primary_returned = TRUE,
                                       !.primary_value = step.value]
                ELSE /\ attempt' = attempt + 1
                     /\ effects' = [effects EXCEPT !.primary_posts = @ + 1]
                     /\ UNCHANGED <<response, pc>>
    /\ UNCHANGED <<request, driver, clock, entry, cached, looked_at, messages, analysis,
                   result, requests>>

\* the secondary endpoint tried whatever the primary client returned
AfterPrimary_unconditional ==
    /\ pc = "primary_returned"
    /\ pc' = "secondary"
    /\ outcomes' = <<>>
    /\ attempt' = 0
    /\ UNCHANGED <<request, driver, clock, entry, cached, looked_at, response, messages,
                   analysis, result, effects, requests>>

\* if not response: try the secondary endpoint
AfterPrimary ==
    /\ pc = "primary_returned"
    /\ pc' = IF ~Truthy(response) THEN "secondary" ELSE "parse"
    /\ outcomes' = <<>>
    /\ attempt' = 0
    /\ UNCHANGED <<request, driver, clock, entry, cached, looked_at, response, messages,
                   analysis, result, effects, requests>>

\* response = await call_apifreellm(prompt)
SecondaryCall ==
    /\ pc = "secondary"
    /\ \E o \in SecondaryOutcomes :
          /\ response' = call_apifreellm(o)
          /\ effects' = [effects EXCEPT !.secondary_posts = @ + 1,
                                        !.secondary_value = call_apifreellm(o)]
    /\ pc' = "parse"
    /\ UNCHANGED <<request, driver, clock, entry, cached, looked_at, attempt, outcomes,
                   messages, analysis, result, requests>>

\* entry of analyze_and_generate_messages(diff, changed_files, num, style)
\* up to its padding loop
CallAnalyze(num, site) ==
    /\ a_messages' = ContextMessages(PromptDiff, changed_files, style)
    /\ a_num' = num
    /\ a_site' = site
    /\ gi' = 0
    /\ pc' = "pad_while"
    /\ effects' = [effects EXCEPT !.heuristic_calls = @ + 1]

\* parse the response if there is one; too few messages: call the heuristic
ParseResponse ==
    /\ pc = "parse"
    /\ IF Truthy(response) /\ response.kind # "str"
       THEN \* response.strip() on a value that is no str: AttributeError
            /\ pc' = "raised"
            /\ UNCHANGED <<messages, analysis, effects>>
       ELSE LET parsed == IF Truthy(response)
                          THEN parse_commit_messages(response.s, num_suggestions)
                          ELSE <<>>
            IN /\ messages' = parsed
               /\ IF Len(parsed) < num_suggestions
                  THEN CallAnalyze(num_suggestions - Len(parsed), 1)
                  ELSE /\ pc' = "ensure"
                       /\ UNCHANGED <<analysis, effects>>
    /\ response' = PyNone   \* not read again
    /\ UNCHANGED <<request, driver, clock, entry, cached, looked_at, attempt, outcomes,
                   result, requests>>

\* while len(messages) < num: ... / return messages[:num] to the caller
PadWhile ==
    /\ pc = "pad_while"
    /\ IF Len(a_messages) < a_num
       THEN /\ gi' = 1
            /\ pc' = "pad_for"
            /\ UNCHANGED <<messages, a_messages, a_num, a_site>>
       ELSE /\ messages' = IF a_site = 1
                           THEN messages \o Take(a_messages, a_num)
                           ELSE Take(a_messages, a_num)
            /\ pc' = IF a_site = 1 THEN "ensure" ELSE "save"
            /\ UNCHANGED analysis
    /\ UNCHANGED <<request, driver, clock, entry, cached, looked_at, attempt, outcomes,
                   response, result, effects, requests>>

\* one pass of: for msg in generic
PadFor ==
    /\ pc = "pad_for"
    /\ LET generic == Generic(style)
           msg == generic[gi]
           added == IF InList(msg, a_messages) THEN a_messages
                    ELSE Append(a_messages, msg)
           break == ~InList(msg, a_messages) /\ Len(added) >= a_num
       IN /\ a_messages' = added
          /\ IF break \/ gi >= Len(generic)
             THEN gi' = 0 /\ pc' = "pad_while"
             ELSE gi' = gi + 1 /\ pc' = pc
    /\ UNCHANGED <<request, driver, clock, entry, cached, looked_at, attempt, outcomes,
                   response, messages, a_num, a_site, result, effects, requests>>

\* if not messages: call the heuristic for the full count
EnsureMessages ==
    /\ pc = "ensure"
    /\ IF messages = <<>>
       THEN CallAnalyze(num_suggestions, 2)
       ELSE pc' = "save" /\ UNCHANGED <<analysis, effects>>
    /\ UNCHANGED <<request, driver, clock, entry, cached, looked_at, attempt, outcomes,
                   response, messages, result, requests>>

\* the ghost state of the entry after save_to_cache(msgs) met io
SavedGhost(msgs, io) ==
    /\ last_saved' = CASE io = "ok" -> PyList(msgs)
                       [] io = "write_fails" -> PyNone
                       [] OTHER -> last_saved
    /\ tampered' = IF io \in {"ok", "write_fails"} THEN FALSE ELSE tampered

\* save_to_cache(cache_key, messages[:num_suggestions]) and the return
SaveAndReturn ==
    /\ pc = "save"
    /\ LET msgs == Take(messages, num_suggestions)
       IN \E io \in WriteIO :
             LET r == save_to_cache(Key, msgs, io, TornCut)
             IN /\ cache' = r.dir
                /\ SavedGhost(msgs, io)
                /\ IF r.raised
                   THEN pc' = "raised" /\ result' = result
                   ELSE pc' = "returned" /\ result' = PyList(msgs)
    /\ effects' = [effects EXCEPT !.saves = @ + 1]
    /\ UNCHANGED <<request, driver, clock, cached, looked_at, attempt, outcomes,
                   response, messages, analysis, requests>>

Finished == pc \in {"returned", "raised"}

\* the next generation request for the same staged changes (choice r of the
\* prompt, or the next invocation)
NewRequest ==
    /\ Finished
    /\ requests < MaxRequests
    /\ requests' = requests + 1
    /\ pc' = "start"
    /\ cached' = PyNone
    /\ looked_at' = NotLooked
    /\ attempt' = 0
    /\ outcomes' = <<>>
    /\ response' = PyNone
    /\ messages' = <<>>
    /\ a_messages' = <<>>
    /\ a_num' = 0
    /\ a_site' = 0
    /\ gi' = 0
    /\ result' = PyNone
    /\ effects' = NoEffects
    /\ UNCHANGED <<request, driver, clock, entry>>

TickSteps == {CACHE_TTL_SECONDS, CACHE_TTL_SECONDS + 1}

\* time passes before a request looks at its entry
Tick ==
    /\ pc = "start"
    /\ ticks < MaxTicks
    /\ Key \in DOMAIN cache
    /\ \E d \in TickSteps : now' = now + d
    /\ ticks' = ticks + 1
    /\ UNCHANGED <<request, driver, entry, pc, cached, looked_at, attempt, outcomes,
                   response, messages, analysis, result, effects, requests>>

-----------------------------------------------------------------------------
(* The cache on its own: save_to_cache and get_cached_result called for the *)
(* key of a request, with lists of any content, while time passes and the  *)
(* entry file is changed from outside.                                      *)

MessageLists ==
    {<<>>, <<"fix: a">>, <<"fix: a", "feat: b">>, <<"feat: b", "fix: a">>}

\* entry texts that save_to_cache does not write
ForeignContents ==
    { <<BytesTok>>,
      <<Punct("["), StrTok("fix: stale"), Punct("]")>>,
      <<Punct("{"), StrTok("messages"), Punct(":"), StrTok("ab"), Punct("}")>>,
      <<Punct("{"), StrTok("other"), Punct(":"), StrTok("x"), Punct("}")>> }

\* the entry file is rewritten, or made unreadable, from outside
ExternalWrite ==
    /\ pc = "start"
    /\ ~tampered
    /\ Key \in DOMAIN cache
    /\ \/ \E c \in ForeignContents :
             cache' = [cache EXCEPT ![Key] = File(c, now)]
       \/ cache' = [cache EXCEPT ![Key].readable = FALSE]
    /\ tampered' = TRUE
    /\ last_saved' = PyNone
    /\ UNCHANGED <<request, driver, clock, pc, cached, looked_at, attempt, outcomes,
                   response, messages, analysis, result, effects, requests>>

\* save_to_cache(cache_key, msgs) called on its own
CallSave ==
    /\ pc = "start"
    /\ \E msgs \in MessageLists, io \in WriteIO :
          \E cut \in IF io = "write_fails" THEN 0..(Len(json_dump(msgs)) - 1)
                                             ELSE {TornCut} :
             LET r == save_to_cache(Key, msgs, io, cut)
             IN /\ cache' = r.dir
                /\ SavedGhost(msgs, io)
                /\ pc' = IF r.raised THEN "raised" ELSE "saved"
    /\ effects' = [effects EXCEPT !.saves = @ + 1]
    /\ UNCHANGED <<request, driver, clock, cached, looked_at, attempt, outcomes,
                   response, messages, analysis, result, requests>>

\* the caller of get_cached_result goes on
CallAgain ==
    /\ pc \in {"cached", "raised", "saved"}
    /\ pc' = "start"
    /\ cached' = PyNone
    /\ looked_at' = NotLooked
    /\ effects' = NoEffects
    /\ UNCHANGED <<request, driver, clock, entry, attempt, outcomes, response, messages,
                   analysis, result, requests>>

CacheNext ==
    \/ GetCachedResult
    \/ CallSave
    \/ CallAgain
    \/ Tick
    \/ ExternalWrite

\* the keys of the requests for the fewest and for the most suggestions
CacheInit == Init /\ num_suggestions \in {1, MAX_NUM}

CacheSpec == CacheInit /\ [][CacheNext]_vars

-----------------------------------------------------------------------------
Next ==
    \/ GetCachedResult
    \/ CheckCached
    \/ PrimaryAttempt
    \/ AfterPrimary
    \/ SecondaryCall
    \/ ParseResponse
    \/ PadWhile
    \/ PadFor
    \/ EnsureMessages
    \/ SaveAndReturn
    \/ NewRequest
    \/ Tick

Spec == Init /\ [][Next]_vars


-----------------------------------------------------------------------------
(* analyze_and_generate_messages on its own, called for the full count *)

AnalyzeAlone ==
    /\ pc = "start"
    /\ CallAnalyze(num_suggestions, 2)
    /\ UNCHANGED <<request, driver, clock, entry, cached, looked_at, attempt, outcomes,
                   response, messages, result, requests>>

AnalyzeNext ==
    \/ AnalyzeAlone
    \/ PadWhile
    \/ PadFor

\* the heuristic is called on the short diffs of StagedChanges
AnalyzeInit == Init /\ Len(diff) <= 20

\* the interpreter goes on executing the loop: it does not stop by itself
AnalyzeSpec == AnalyzeInit /\ [][AnalyzeNext]_vars /\ WF_vars(AnalyzeNext)

-----------------------------------------------------------------------------
(* get_cache_key on its own: the keys of two requests, side by side *)

KeyDiffs ==
    {"", "a", "a[]",
     "a[FileChange(path='x', status='added', additions=0, deletions=0)]"}

KeyFiles ==
    {<<>>,
     <<FileChange("x", "added")>>,
     <<FileChange("x", "modified")>>,
     <<FileChange("x", "added"), FileChange("y's", "added")>>,
     <<FileChange("y's", "added"), FileChange("x", "added")>>}

KeyNums == {1, 2, MAX_NUM}

KeyInputs ==
    [diff : KeyDiffs, files : KeyFiles, style : Styles, num : KeyNums]

KeyInit ==
    /\ \E a \in KeyInputs :
          /\ diff = a.diff
          /\ changed_files = a.files
          /\ style = a.style
          /\ num_suggestions = a.num
    /\ \E b \in KeyInputs : probe = [kind |-> "key", other |-> b, keys |-> <<>>]
    /\ Idle
    /\ repo = NoRepo
    /\ cli = NoCli

\* cache_key = get_cache_key(...) for the request and for the other one
ComputeKeys ==
    /\ pc = "start"
    /\ probe.kind = "key"
    /\ probe' = [probe EXCEPT !.keys =
                    <<get_cache_key(diff, changed_files, style, num_suggestions),
                      get_cache_key(probe.other.diff, probe.other.files,
                                    probe.other.style, probe.other.num)>>]
    /\ pc' = "keyed"
    /\ UNCHANGED <<request, repo, cli, clock, entry, cached, looked_at, attempt,
                   outcomes, response, messages, analysis, result, effects,
                   requests>>

KeyNext == ComputeKeys

KeySpec == KeyInit /\ [][KeyNext]_vars

\* everything of the pipeline, which the command model leaves alone
pipeline == <<clock, entry, pc, cached, looked_at, attempt, outcomes, response,
              messages, analysis, result, effects, requests>>

-----------------------------------------------------------------------------
(* Repository inspector: has_staged_changes, get_staged_diff *)

MAX_DIFF_SIZE == 10000

\* s.startswith(p)
StartsWith(s, p) == Len(s) >= Len(p) /\ SubSeq(s, 1, Len(p)) = p

\* a repository: HEAD's tree and the index as sets of "path@blob" entries,
\* what `git diff --cached` prints for it and what get_changed_files lists
Repo(head_exists, head, index, staged_diff, changes) ==
    [is_repo |-> TRUE, head_exists |-> head_exists, head |-> head,
     index |-> index, staged_diff |-> staged_diff, changes |-> changes,
     commits |-> <<>>]

Repos ==
    { [is_repo |-> FALSE],
      \* nothing committed, nothing staged
      Repo(FALSE, {}, {}, "", <<>>),
      \* first commit being prepared
      Repo(FALSE, {}, {"a.py@1"}, "diff --git a/a.py b/a.py\n+x = 1",
           <<FileChange("a.py", "added")>>),
      \* tracked, committed files and nothing staged
      Repo(TRUE, {"a.py@1"}, {"a.py@1"}, "", <<>>),
      \* a staged modification
      Repo(TRUE, {"a.py@1"}, {"a.py@2"}, "diff --git a/a.py b/a.py\n-x = 1\n+x = 2",
           <<FileChange("a.py", "modified")>>),
      \* a staged deletion of the only file
      Repo(TRUE, {"a.py@1"}, {}, "diff --git a/a.py b/a.py\n-x = 1",
           <<FileChange("a.py", "deleted")>>) }

\* repo.index.diff("HEAD"): the entries in which index and HEAD differ
IndexDiffHead(r) == (r.index \ r.head) \cup (r.head \ r.index)

\* has_staged_changes(); with an empty index repo.index.diff(None) is empty
has_staged_changes(r) ==
    IF ~r.is_repo THEN FALSE
    ELSE IF Cardinality(r.index) > 0 THEN TRUE
    ELSE IF r.head_exists THEN Cardinality(IndexDiffHead(r)) > 0
    ELSE Cardinality(r.index) > 0     \* git.BadName: no HEAD yet

\* the truncation without the search for a header: a hard cut
TruncateDiff_hard_cut(staged_diff) ==
    IF Len(staged_diff) > MAX_DIFF_SIZE
    THEN SubSeq(staged_diff, 1, MAX_DIFF_SIZE)
    ELSE staged_diff

\* the truncation at the end of get_staged_diff
TruncateDiff(staged_diff) ==
    IF Len(staged_diff) > MAX_DIFF_SIZE
    THEN LET lines == SplitLines(SubSeq(staged_diff, 1, MAX_DIFF_SIZE))
             H == {i \in 1..Len(lines) : StartsWith(lines[i], "diff --git")}
         IN IF H # {}
            THEN LET i == CHOOSE k \in H : \A m \in H : m <= k
                 IN Join(SubSeq(lines, 1, i - 1), "\n")
            ELSE SubSeq(staged_diff, 1, MAX_DIFF_SIZE)
    ELSE staged_diff

\* get_staged_diff() in a repository whose `git diff --cached` succeeds
get_staged_diff(r) == TruncateDiff(r.staged_diff)

\* how repo.index.commit(message) ends: it returns, or it raises
\* git.GitCommandError, or an exception of another class (a failing
\* pre-commit hook raises HookExecutionError, which like GitCommandError
\* derives from CommandError; an unwritable object store raises OSError; a
\* message that the repository's i18n.commitencoding cannot encode raises
\* UnicodeEncodeError, a subclass of ValueError)
CommitOutcomes ==
    {"ok", "GitCommandError", "HookExecutionError", "OSError", "UnicodeEncodeError"}

\* what `except ValueError` catches of the exceptions create_commit raises
ValueErrors == {"ValueError: Not a git repository", "UnicodeEncodeError"}

\* create_commit(message) in repository r when repo.index.commit ends as o:
\* what it raises ("" when it returns), what it returns, the repository after
create_commit(r, message, o) ==
    IF ~r.is_repo
    THEN [raised |-> "ValueError: Not a git repository", value |-> FALSE,
          attempted |-> FALSE, repo |-> r]
    ELSE IF o = "ok"
    THEN [raised |-> "", value |-> TRUE, attempted |-> TRUE,
          repo |-> [r EXCEPT !.commits = Append(@, message)]]
    ELSE IF o = "GitCommandError"
    THEN [raised |-> "", value |-> FALSE, attempted |-> TRUE, repo |-> r]
    ELSE [raised |-> o, value |-> FALSE, attempted |-> TRUE, repo |-> r]

-----------------------------------------------------------------------------
(* create_commit alone *)

CommitMessages ==
    {"fix: a", "feat: add login", "docs: edited", "", "chore: update project files"}

CommitInit ==
    /\ repo \in Repos
    /\ \E m \in CommitMessages : probe = [kind |-> "commit", message |-> m]
    /\ cli = NoCli
    /\ diff = ""
    /\ changed_files = <<>>
    /\ num_suggestions = 1
    /\ style = "conventional"
    /\ Idle

\* result = create_commit(message)
CreateCommit ==
    /\ probe.kind = "commit"
    /\ \E o \in CommitOutcomes :
          LET r == create_commit(repo, probe.message, o)
          IN /\ repo' = r.repo
             /\ probe' = [kind |-> "commit_done", message |-> probe.message,
                          raised |-> r.raised, value |-> r.value,
                          attempted |-> r.attempted, outcome |-> o]
    /\ UNCHANGED <<request, cli, pipeline>>

CommitNext == CreateCommit

CommitSpec == CommitInit /\ [][CommitNext]_vars

-----------------------------------------------------------------------------
(* get_staged_diff alone, on diffs around the size limit *)

\* s repeated n times
RECURSIVE Rep(_, _)
Rep(s, n) ==
    IF n = 0 THEN ""
    ELSE LET h == Rep(s, n \div 2)
         IN h \o h \o (IF n % 2 = 1 THEN s ELSE "")

HeaderLine == "diff --git a/f.py b/f.py"

\* a diff of `total` characters: a first line that is a header or not, and
\* (p > 0) the text sep \o HeaderLine with the header at position p
LongDiff(first_header, p, sep, total) ==
    LET start == IF first_header THEN HeaderLine \o "\n+" ELSE "+"
        whole == IF p = 0
                 THEN start \o Rep("x", total)
                 ELSE start \o Rep("x", p - 2 - Len(start)) \o sep
                          \o HeaderLine \o "\n+" \o Rep("x", total)
    IN SubSeq(whole, 1, total)

HeaderPositions ==
    {0, 5000, MAX_DIFF_SIZE - 20, MAX_DIFF_SIZE - 10, MAX_DIFF_SIZE - 9,
     MAX_DIFF_SIZE - 8, MAX_DIFF_SIZE - 5, MAX_DIFF_SIZE - 1, MAX_DIFF_SIZE,
     MAX_DIFF_SIZE + 1, MAX_DIFF_SIZE + 2}

DiffLengths == {50, MAX_DIFF_SIZE, MAX_DIFF_SIZE + 1, MAX_DIFF_SIZE + 40}

LongDiffs ==
    { LongDiff(f, p, sep, total) :
        f \in BOOLEAN, p \in HeaderPositions, sep \in {"\n", " "},
        total \in DiffLengths }

DiffInit ==
    /\ \E d \in LongDiffs :
          repo = Repo(TRUE, {}, {"f.py@1"}, d, <<FileChange("f.py", "added")>>)
    /\ probe = [kind |-> "diff"]
    /\ cli = NoCli
    /\ diff = ""
    /\ changed_files = <<>>
    /\ num_suggestions = 1
    /\ style = "conventional"
    /\ Idle

\* diff = get_staged_diff()
GetStagedDiff ==
    /\ probe.kind = "diff"
    /\ diff' = get_staged_diff(repo)
    /\ probe' = [kind |-> "diff_done"]
    /\ UNCHANGED <<changed_files, num_suggestions, style, repo, cli, pipeline>>

DiffNext == GetStagedDiff

DiffSpec == DiffInit /\ [][DiffNext]_vars

-----------------------------------------------------------------------------
(* parse_commit_messages alone, on response texts of every shape *)

ResponseTexts ==
    { "1) fix: update file\n- chore: refactor code\n* feat: add feature",
      "feat: add login\nfix: handle empty diff\ndocs: update readme\ntest: add cases",
      "1. feat: add login\n2. ok\n3. fix: repair cache\n4) docs: explain flags",
      "\n\n  1. feat: indented first line  \r\n\t- fix: tabbed bullet\t\n\n",
      "1. abcd\n2) abcde\n- abcdef\n* abcdefg",
      "abcde\nabcdef\n1.abcdef\n12) numbered twelve",
      "1. - feat: both markers\n2) * fix: both again\n- 3. docs: bullet first",
      "1.2. nested marker\n-- double dash\n** double star\n-* mixed pair",
      "Here are some suggestions:\n\n1. feat: add parser\n\nThanks!",
      "fix: a\nok\n\n",
      "123456\n1. 3456\n      \n- - - - -",
      "feat: one line only",
      "   " }

ParseInit ==
    /\ \E t \in ResponseTexts : response = PyStr(t)
    /\ num_suggestions \in NumRange
    /\ probe = [kind |-> "parse"]
    /\ pc = "parse"
    /\ diff = ""
    /\ changed_files = <<>>
    /\ style = "conventional"
    /\ now = 0 /\ ticks = 0
    /\ cache = <<>> /\ last_saved = PyNone /\ tampered = FALSE
    /\ cached = PyNone /\ looked_at = NotLooked
    /\ attempt = 0 /\ outcomes = <<>>
    /\ messages = <<>>
    /\ a_messages = <<>> /\ a_num = 0 /\ a_site = 0 /\ gi = 0
    /\ result = PyNone
    /\ effects = NoEffects
    /\ requests = 1
    /\ repo = NoRepo
    /\ cli = NoCli

\* messages = parse_commit_messages(response, num_suggestions)
ParseAlone ==
    /\ pc = "parse"
    /\ probe.kind = "parse"
    /\ messages' = parse_commit_messages(response.s, num_suggestions)
    /\ pc' = "parsed"
    /\ UNCHANGED <<request, driver, clock, entry, cached, looked_at, attempt,
                   outcomes, response, analysis, result, effects, requests>>

ParseNext == ParseAlone

ParseSpec == ParseInit /\ [][ParseNext]_vars

-----------------------------------------------------------------------------
(* analyze_and_generate_messages called twice on the same inputs, with the *)
(* clock and the cache changed between the calls                           *)

RerunInit ==
    /\ \E c \in StagedChanges : diff = c.diff /\ changed_files = c.files
    /\ num_suggestions \in NumRange
    /\ style \in Styles
    /\ Idle
    /\ repo = NoRepo
    /\ cli = NoCli
    /\ probe = [kind |-> "rerun", runs |-> <<>>]

\* a call returns: its list is noted; the locals of the call are left as
\* they are
RecordRun ==
    /\ pc = "save"
    /\ probe.kind = "rerun"
    /\ probe' = [probe EXCEPT !.runs = Append(@, messages)]
    /\ pc' = IF Len(probe.runs) = 0 THEN "between" ELSE "returned"
    /\ UNCHANGED <<request, repo, cli, clock, entry, cached, looked_at, attempt,
                   outcomes, response, messages, analysis, result, effects,
                   requests>>

\* between the calls: time passes or not, the entry of the key is written
\* or not
Disturb ==
    /\ pc = "between"
    /\ \E d \in {0} \cup TickSteps : now' = now + d
    /\ \/ cache' = cache
       \/ \E c \in ForeignContents : cache' = Key :> File(c, now')
    /\ pc' = "start"
    /\ UNCHANGED <<request, driver, ticks, last_saved, tampered, cached,
                   looked_at, attempt, outcomes, response, messages, analysis,
                   result, effects, requests>>

RerunNext ==
    \/ AnalyzeAlone
    \/ PadWhile
    \/ PadFor
    \/ RecordRun
    \/ Disturb

RerunSpec == RerunInit /\ [][RerunNext]_vars

-----------------------------------------------------------------------------
(* cli.generate: the command from its first check to its exit *)

MaxPrompts == 3    \* answers to the selection prompt per invocation

\* what the user may type at a prompt (the empty answer is the default "1")
Choices == {"q", "Q", "r", "e", "-1", "0", "1", "2", "3", "x"}

\* int(choice): the number, or ValueError
IntOf(choice) ==
    CASE choice = "-1" -> [ok |-> TRUE, n |-> -1]
      [] choice = "0" -> [ok |-> TRUE, n |-> 0]
      [] choice = "1" -> [ok |-> TRUE, n |-> 1]
      [] choice = "2" -> [ok |-> TRUE, n |-> 2]
      [] choice = "3" -> [ok |-> TRUE, n |-> 3]
      [] OTHER -> [ok |-> FALSE, n |-> 0]

\* what a call of generate_commit_messages gives the command: it raises, or
\* it returns num messages
SuggestionLists(num) ==
    { Take(<<"fix: a", "feat: b", "docs: c">>, num),
      Take(<<"test: d", "chore: e", "perf: f">>, num) }

GenOutcomes(num) ==
    {[raises |-> TRUE, list |-> <<>>]}
        \cup {[raises |-> FALSE, list |-> l] : l \in SuggestionLists(num)}

\* how the edit of the temporary file ends: the editor returns and the file
\* is read back and deleted (edited); subprocess.call raises, e.g. the
\* editor is not installed (launch_raises); the editor returns but reading
\* the file back or deleting it raises (readback_raises).  content is the
\* file after the editor, inline the answer to the "Edit message" prompt
\* (which has the selected message as its default).
EditorOutcome(kind, content, inline) ==
    [kind |-> kind, content |-> content, inline |-> inline]

NoEditor == EditorOutcome("none", "", "")

EditorOutcomes ==
    {EditorOutcome("edited", c, "") :
        c \in {"", " \n", "docs: edited\n", "  fix: trimmed \n"}}
    \cup {EditorOutcome("launch_raises", "", t) : t \in {"", "docs: inline"}}
    \cup {EditorOutcome("readback_raises", "docs: edited\n", t) :
              t \in {"", "docs: inline"}}

\* the edit that takes the file content as it is, untrimmed
EditedMessage_untrimmed(selected_msg, o) ==
    IF o.kind = "edited"
    THEN IF o.content # "" THEN o.content ELSE selected_msg
    ELSE IF o.inline # "" THEN o.inline ELSE selected_msg

\* selected_msg after the try/except around the editor
EditedMessage(selected_msg, o) ==
    IF o.kind = "edited"
    THEN LET edited_msg == Strip(o.content)
         IN IF edited_msg # "" THEN edited_msg ELSE selected_msg
    ELSE IF o.inline # "" THEN o.inline ELSE selected_msg

CliStart(auto, dry_run) ==
    [pc |-> "check_repo", auto |-> auto, dry_run |-> dry_run,
     messages |-> <<>>, shown |-> <<>>, selected_msg |-> "",
     choices |-> <<>>, edit_choice |-> "", editor |-> NoEditor, original |-> "", generations |-> 0, retrieved |-> FALSE,
     commit_calls |-> <<>>, swallowed |-> 0, reported |-> <<>>, events |-> {},
     said |-> "", exit_code |-> -1]

CliInit ==
    /\ repo \in Repos
    /\ \E auto \in BOOLEAN, dry_run \in BOOLEAN : cli = CliStart(auto, dry_run)
    /\ num_suggestions \in {1, 2}
    /\ style = "conventional"
    /\ diff = ""
    /\ changed_files = <<>>
    /\ probe = NoProbe
    /\ Idle

\* raise typer.Exit(code), the return of the command (code 0), or an
\* exception that reaches main() (code 1)
Exit(c, code, said) == [c EXCEPT !.pc = "done", !.exit_code = code, !.said = said]

\* if not is_git_repo(): ... raise typer.Exit(1)
CheckRepo ==
    /\ cli.pc = "check_repo"
    /\ cli' = IF ~repo.is_repo
              THEN Exit(cli, 1, "Error: Not a git repository")
              ELSE [cli EXCEPT !.pc = "check_staged"]
    /\ UNCHANGED <<request, repo, probe, pipeline>>

\* if not has_staged_changes(): ... raise typer.Exit(1)
CheckStaged ==
    /\ cli.pc = "check_staged"
    /\ cli' = IF ~has_staged_changes(repo)
              THEN Exit(cli, 1, "No staged changes found")
              ELSE [cli EXCEPT !.pc = "analyze"]
    /\ UNCHANGED <<request, repo, probe, pipeline>>

\* diff = get_staged_diff(); changed_files = get_changed_files()
GetDiff ==
    /\ cli.pc = "analyze"
    /\ \/ /\ diff' = get_staged_diff(repo)
          /\ changed_files' = repo.changes
          /\ cli' = [cli EXCEPT !.pc = "generate", !.retrieved = TRUE]
       \/ /\ cli' = Exit([cli EXCEPT !.events = @ \cup {"diff_error"},
                                     !.retrieved = TRUE],
                         1, "Error getting git diff")
          /\ UNCHANGED <<diff, changed_files>>
    /\ UNCHANGED <<num_suggestions, style, repo, probe, pipeline>>

\* messages = asyncio.run(generate_commit_messages(...)) and the display
Generate ==
    /\ cli.pc = "generate"
    /\ \E o \in GenOutcomes(num_suggestions) :
          LET c == [cli EXCEPT !.generations = @ + 1]
          IN cli' = IF o.raises
                    THEN Exit([c EXCEPT !.events = @ \cup {"generation_error"}],
                              1, "Error generating messages")
                    ELSE IF o.list = <<>>
                    THEN Exit([c EXCEPT !.events = @ \cup {"empty_result"}],
                              1, "Failed to generate commit messages")
                    ELSE [c EXCEPT !.messages = o.list, !.shown = o.list,
                                   !.pc = IF cli.auto THEN "auto" ELSE "prompt"]
    /\ UNCHANGED <<request, repo, probe, pipeline>>

\* commit unconditionally
CommitOrReport_always(c, selected_msg) ==
    \E ok \in BOOLEAN :
       /\ repo' = [repo EXCEPT !.commits = IF ok THEN Append(@, selected_msg) ELSE @]
       /\ cli' = Exit([c EXCEPT !.selected_msg = selected_msg,
                                !.commit_calls = Append(@, selected_msg),
                                !.events = IF ok THEN @ ELSE @ \cup {"commit_failed"}],
                      IF ok THEN 0 ELSE 1,
                      IF ok THEN "Committed" ELSE "Failed to create commit")

\* create_commit(selected_msg) ends as o: exit 1 if it fails or raises
CommitWith(c, selected_msg, o) ==
    LET r == create_commit(repo, selected_msg, o)
        ok == r.raised = "" /\ r.value
    IN /\ repo' = r.repo
       /\ cli' = Exit([c EXCEPT !.selected_msg = selected_msg,
                                !.commit_calls = Append(@, selected_msg),
                                !.events = IF ok THEN @
                                           ELSE @ \cup {"commit_failed"}],
                      IF ok THEN 0 ELSE 1,
                      IF ok THEN "Committed"
                      ELSE IF r.raised = "" THEN "Failed to create commit"
                      ELSE "Unexpected error")

\* if not dry_run: create_commit(selected_msg), exit 1 if it fails;
\* else: report the would-be commit; then the command returns
CommitOrReport(c, selected_msg) ==
    IF ~c.dry_run
    THEN \E o \in CommitOutcomes : CommitWith(c, selected_msg, o)
    ELSE /\ repo' = repo
         /\ cli' = Exit([c EXCEPT !.selected_msg = selected_msg,
                                  !.reported = Append(@, selected_msg)],
                        0, "Dry run - would commit")

\* if auto: selected_msg = messages[0].subject ...
AutoCommit ==
    /\ cli.pc = "auto"
    /\ CommitOrReport(cli, cli.messages[1])
    /\ UNCHANGED <<request, probe, pipeline>>

\* choice.lower() == "q", case-sensitive
IsQuit_exact(choice) == choice = "q"

\* choice.lower() == "q"
IsQuit(choice) == Lower(choice) = "q"

\* choice e: pick the message (asked for when there are several), edit it,
\* commit or report it
Edit(c) ==
    IF Len(c.messages) = 1
    THEN \E o \in EditorOutcomes :
            CommitOrReport([c EXCEPT !.editor = o, !.original = c.messages[1]],
                           EditedMessage(c.messages[1], o))
    ELSE \E edit_choice \in Choices :
            LET k == IntOf(edit_choice)
                ce == [c EXCEPT !.edit_choice = edit_choice]
            IN IF k.ok /\ 0 <= k.n - 1 /\ k.n - 1 < Len(c.messages)
               THEN \E o \in EditorOutcomes :
                       CommitOrReport([ce EXCEPT !.editor = o,
                                                 !.original = c.messages[k.n]],
                                      EditedMessage(c.messages[k.n], o))
               ELSE cli' = ce /\ repo' = repo    \* Invalid selection; continue

\* messages[int(choice)] in place of messages[int(choice) - 1]
Numeric_off_by_one(c, choice) ==
    LET k == IntOf(choice)
    IN IF k.ok /\ 0 <= k.n - 1 /\ k.n < Len(c.messages)
       THEN CommitOrReport(c, c.messages[k.n + 1])
       ELSE cli' = c /\ repo' = repo

\* the numeric selection without the test 0 <= idx: a negative idx counts
\* from the end of the list, or raises IndexError
Numeric_no_lower_bound(c, choice) ==
    LET k == IntOf(choice)
        idx == k.n - 1
    IN IF k.ok /\ idx < Len(c.messages)
       THEN IF idx >= 0 THEN CommitOrReport(c, c.messages[idx + 1])
            ELSE IF Len(c.messages) + idx >= 0
            THEN CommitOrReport(c, c.messages[Len(c.messages) + idx + 1])
            ELSE cli' = Exit(c, 1, "Unexpected error") /\ repo' = repo
       ELSE cli' = c /\ repo' = repo

\* the commit of the numeric selection, which stands inside the try whose
\* `except ValueError` reports invalid input: a ValueError raised by
\* create_commit is taken for one, and the loop goes on
CommitInTry(c, selected_msg) ==
    IF ~c.dry_run
    THEN \E o \in CommitOutcomes :
            LET r == create_commit(repo, selected_msg, o)
            IN IF r.raised \in ValueErrors
               THEN /\ repo' = r.repo
                    /\ cli' = [c EXCEPT !.selected_msg = selected_msg,
                                        !.commit_calls = Append(@, selected_msg),
                                        !.swallowed = @ + 1,
                                        !.events = @ \cup {"commit_failed"},
                                        !.said = "Invalid input, please try again"]
               ELSE CommitWith(c, selected_msg, o)
    ELSE CommitOrReport(c, selected_msg)

\* the numeric selection: idx = int(choice) - 1
Numeric(c, choice) ==
    LET k == IntOf(choice)
    IN IF k.ok /\ 0 <= k.n - 1 /\ k.n - 1 < Len(c.messages)
       THEN CommitInTry(c, c.messages[k.n])
       ELSE cli' = c /\ repo' = repo             \* invalid; the loop goes on

\* one answer to Prompt.ask in the interactive loop
Prompt ==
    /\ cli.pc = "prompt"
    /\ Len(cli.choices) < MaxPrompts
    /\ \E choice \in Choices :
          LET c == [cli EXCEPT !.choices = Append(@, choice), !.edit_choice = ""]
          IN IF IsQuit(choice)
             THEN cli' = Exit(c, 0, "Commit cancelled") /\ repo' = repo
             ELSE IF Lower(choice) = "r"
             THEN cli' = [c EXCEPT !.pc = "regenerate"] /\ repo' = repo
             ELSE IF Lower(choice) = "e"
             THEN Edit(c)
             ELSE Numeric(c, choice)
    /\ UNCHANGED <<request, probe, pipeline>>

\* choice r: messages = asyncio.run(generate_commit_messages(...)), outside
\* any try: an exception leaves the command and main() exits with 1
Regenerate ==
    /\ cli.pc = "regenerate"
    /\ \E o \in GenOutcomes(num_suggestions) :
          LET c == [cli EXCEPT !.generations = @ + 1]
          IN cli' = IF o.raises
                    THEN Exit([c EXCEPT !.events = @ \cup {"generation_error"}],
                              1, "Unexpected error")
                    ELSE [c EXCEPT !.messages = o.list, !.shown = o.list,
                                   !.pc = "prompt"]
    /\ UNCHANGED <<request, repo, probe, pipeline>>

CliNext ==
    \/ CheckRepo
    \/ CheckStaged
    \/ GetDiff
    \/ Generate
    \/ AutoCommit
    \/ Prompt
    \/ Regenerate

CliSpec == CliInit /\ [][CliNext]_vars

-----------------------------------------------------------------------------
(* The interactive loop over the generation pipeline: the suggestions the   *)
(* prompt shows are the list generate_commit_messages returned, and choice  *)
(* r calls it again with the arguments of the first call.                   *)

RegenStyles == {"conventional"}

\* after the checks and get_staged_diff: the generation is about to be called
RegenInit ==
    /\ repo \in {r \in Repos : r.is_repo /\ has_staged_changes(r)}
    /\ diff = get_staged_diff(repo)
    /\ changed_files = repo.changes
    /\ num_suggestions \in {1, 2}
    /\ style \in RegenStyles
    /\ \E dry_run \in BOOLEAN :
          cli = [CliStart(FALSE, dry_run) EXCEPT !.pc = "generate", !.retrieved = TRUE]
    /\ probe = NoProbe
    /\ Idle

\* the call in flight has not been shown yet
CallInFlight == cli.generations < requests

\* the statement after the call of choice r keeps the list it had
ShowGenerated_keeps_list ==
    /\ cli.pc \in {"generate", "regenerate"}
    /\ CallInFlight
    /\ Finished
    /\ LET c == [cli EXCEPT !.generations = @ + 1]
       IN cli' = IF pc = "raised"
                 THEN Exit([c EXCEPT !.events = @ \cup {"generation_error"}], 1,
                           IF cli.pc = "generate" THEN "Error generating messages"
                           ELSE "Unexpected error")
                 ELSE IF cli.pc = "generate"
                 THEN [c EXCEPT !.messages = result.items, !.shown = result.items,
                                !.pc = "prompt"]
                 ELSE [c EXCEPT !.pc = "prompt"]
    /\ UNCHANGED <<request, repo, probe, pipeline>>

\* messages = asyncio.run(generate_commit_messages(diff, changed_files,
\* num_suggestions, style)) has ended: the list is bound to messages and
\* displayed, or the exception leaves the command (caught around the first
\* call, reaching main() from choice r)
ShowGenerated ==
    /\ cli.pc \in {"generate", "regenerate"}
    /\ CallInFlight
    /\ Finished
    /\ LET c == [cli EXCEPT !.generations = @ + 1]
       IN cli' = IF pc = "raised"
                 THEN Exit([c EXCEPT !.events = @ \cup {"generation_error"}], 1,
                           IF cli.pc = "generate" THEN "Error generating messages"
                           ELSE "Unexpected error")
                 ELSE IF cli.pc = "generate" /\ result.items = <<>>
                 THEN Exit([c EXCEPT !.events = @ \cup {"empty_result"}], 1,
                           "Failed to generate commit messages")
                 ELSE [c EXCEPT !.messages = result.items, !.shown = result.items,
                                !.pc = "prompt"]
    /\ UNCHANGED <<request, repo, probe, pipeline>>

\* choice r: generate_commit_messages is called again
RegenerateCall ==
    /\ cli.pc = "regenerate"
    /\ ~CallInFlight
    /\ NewRequest

\* the answers this loop is followed for: regenerate, pick a suggestion, quit
RegenChoices == {"r", "R", "1", "q"}

RegenPrompt ==
    /\ Prompt
    /\ cli'.choices[Len(cli'.choices)] \in RegenChoices

RegenNext ==
    \/ GetCachedResult
    \/ CheckCached
    \/ PrimaryAttempt
    \/ AfterPrimary
    \/ SecondaryCall
    \/ ParseResponse
    \/ PadWhile
    \/ PadFor
    \/ EnsureMessages
    \/ SaveAndReturn
    \/ Tick
    \/ ShowGenerated
    \/ RegenPrompt
    \/ RegenerateCall

RegenSpec == RegenInit /\ [][RegenNext]_vars

-----------------------------------------------------------------------------
(* Two invocations on one cache key.  Each runs get_cached_result, on a miss *)
(* generates a list and runs save_to_cache; the steps of the two interleave  *)
(* at the system calls: the lookup reads the file as it is at that moment,   *)
(* open(cache_file, "w") truncates it, and each writer writes at the offset  *)
(* of its own file object.  The file system answers every call.             *)

RaceProcs == {1, 2}

\* the lists the two generations can produce for the same request
RaceLists == {<<"feat: add login">>, <<"fix: typo", "docs: notes">>}

\* a buffer flushed before close ends before the first message
FlushCut == Len(json_dump(<<>>)) - 2

\* bytes of a hole left by a write beyond the end of the file
Hole == Punct("NUL")

ProcStart ==
    [pc |-> "lookup", msgs |-> <<>>, offset |-> 0, result |-> PyNone,
     saw_partial |-> FALSE, wrote |-> FALSE]

\* write(fd, chunk) at the offset of the file object
Overwrite(content, offset, chunk) ==
    LET end == offset + Len(chunk)
        n == IF end > Len(content) THEN end ELSE Len(content)
    IN [i \in 1..n |-> IF i > offset /\ i <= end THEN chunk[i - offset]
                       ELSE IF i <= Len(content) THEN content[i]
                       ELSE Hole]

RaceInit ==
    /\ \E c \in StagedChanges : diff = c.diff /\ changed_files = c.files
    /\ num_suggestions = 2
    /\ style = "conventional"
    /\ Idle
    /\ repo = NoRepo
    /\ cli = NoCli
    /\ probe = [kind |-> "race", procs |-> [p \in RaceProcs |-> ProcStart],
                last |-> 0]

RaceUnchanged ==
    UNCHANGED <<request, repo, cli, clock, last_saved, tampered, pc, cached,
                looked_at, attempt, outcomes, response, messages, analysis,
                result, effects, requests>>

\* the file holds something other than a complete entry
PartialEntry ==
    Key \in DOMAIN cache /\ cache[Key].content \notin {json_dump(l) : l \in RaceLists}

\* cached = get_cached_result(cache_key); if cached: return cached
RaceLookup(p) ==
    /\ probe.procs[p].pc = "lookup"
    /\ LET r == get_cached_result(Key)
       IN /\ cache' = IF r.unlink THEN Unlink(cache, Key) ELSE cache
          /\ probe' = [probe EXCEPT
                !.procs[p].saw_partial = PartialEntry,
                !.procs[p].pc = IF r.raised THEN "raised"
                                ELSE IF Truthy(r.value) THEN "done"
                                ELSE "generate",
                !.procs[p].result = IF ~r.raised /\ Truthy(r.value) THEN r.value
                                    ELSE PyNone]
    /\ RaceUnchanged

\* the remote services and the heuristics produce the list of this invocation
RaceGenerate(p) ==
    /\ probe.procs[p].pc = "generate"
    /\ \E l \in RaceLists :
          probe' = [probe EXCEPT !.procs[p].msgs = Take(l, num_suggestions),
                                 !.procs[p].pc = "open"]
    /\ cache' = cache
    /\ RaceUnchanged

\* save_to_cache: open(cache_file, "w") creates or truncates the file
RaceOpen(p) ==
    /\ probe.procs[p].pc = "open"
    /\ cache' = (Key :> File(<<>>, now)) @@ cache
    /\ probe' = [probe EXCEPT !.procs[p].offset = 0, !.procs[p].pc = "dump"]
    /\ RaceUnchanged

\* save_to_cache: json.dump and the close of the file; the text reaches the
\* file in one write at close, or in two when the buffer is flushed before
RaceDump(p) ==
    /\ probe.procs[p].pc = "dump"
    /\ LET me == probe.procs[p]
           text == json_dump(me.msgs)
       IN \E upto \in {Len(text)} \cup (IF me.offset = 0 THEN {FlushCut} ELSE {}) :
             /\ cache' = [cache EXCEPT ![Key] =
                             File(Overwrite(@.content, me.offset,
                                            SubSeq(text, me.offset + 1, upto)), now)]
             /\ probe' = IF upto = Len(text)
                         THEN [probe EXCEPT !.procs[p].offset = upto,
                                            !.procs[p].pc = "done",
                                            !.procs[p].wrote = TRUE,
                                            !.procs[p].result = PyList(me.msgs),
                                            !.last = p]
                         ELSE [probe EXCEPT !.procs[p].offset = upto, !.last = p]
    /\ RaceUnchanged

RaceNext ==
    \E p \in RaceProcs :
       \/ RaceLookup(p)
       \/ RaceGenerate(p)
       \/ RaceOpen(p)
       \/ RaceDump(p)

RaceSpec == RaceInit /\ [][RaceNext]_vars

-----------------------------------------------------------------------------
(* Properties *)

\* the entry the lookup looked at is no older than the TTL / is older
LookedAtFresh ==
    looked_at.present /\ looked_at.at - looked_at.file.mtime <= CACHE_TTL_SECONDS

\* get_cached_result has been called and has returned or raised
LookupDone == pc \in {"cached", "raised"} /\ effects.saves = 0

Min(S) == CHOOSE i \in S : \A j \in S : i <= j

\* C1: a generation request that ends, ends by returning exactly
\* num_suggestions messages, whatever the cache and the remote calls did.
C1_ReturnsRequestedCount ==
    Finished => /\ pc = "returned"
                /\ result.kind = "list"
                /\ Len(result.items) = num_suggestions

\* C2: analyze_and_generate_messages called for num_suggestions messages
\* comes to its return, and with exactly that many messages.
C2_PaddingReachesCount ==
    <>(pc = "save" /\ Len(messages) = num_suggestions)

\* C3: the remote clients hand back a text or nothing, and no request fails
\* between its first POST and the cache write.
C3_RemoteStageNeverFails ==
    /\ pc \in {"primary_returned", "parse"} => response.kind \in {"none", "str"}
    /\ ~(pc = "raised" /\ effects.primary_posts > 0 /\ effects.saves = 0)

\* C4: a request makes at most 2 primary POSTs and at most 1 secondary POST,
\* and the secondary one only once the primary client has returned nothing
\* (None or the empty text): not during the retry loop, not after a text.
C4_SecondaryOnlyAfterPrimary ==
    /\ effects.primary_posts <= 2
    /\ effects.secondary_posts <= 1
    /\ (pc = "secondary" \/ effects.secondary_posts > 0) =>
          /\ effects.primary_returned
          /\ ~Truthy(effects.primary_value)
          /\ pc # "primary"
    /\ pc = "primary" => effects.secondary_posts = 0

C4_Witness ==
    /\ effects.primary_posts = 2
    /\ effects.secondary_posts = 1
    /\ effects.primary_value = PyStr("")

\* C5, as stated: call_llm7_api returns the content of the first attempt that
\* answered 200 with a non-empty choices list, nothing if there is none, and
\* gives up before max_retries attempts only on a 200.
C5_FirstAnswered200 ==
    pc = "primary_returned" =>
       LET ok == {i \in 1..Len(outcomes) :
                     outcomes[i].outcome.kind \in {"200_content", "200_nomessage"}}
       IN /\ response = IF ok = {} THEN PyNone ELSE outcomes[Min(ok)].outcome.content
          /\ Len(outcomes) < MAX_RETRIES =>
                outcomes[Len(outcomes)].outcome.kind \in {"200_content", "200_nochoices"}

\* C5, amended: call_llm7_api returns the content of the first attempt that
\* answered 200 with choices[0].message.content present, nothing if there is
\* none; a 200 that lacks it is retried like an exception; the call gives up
\* before max_retries attempts only on a 200 with content or without choices.
C5_FirstUsable200 ==
    pc = "primary_returned" =>
       LET ok == {i \in 1..Len(outcomes) : outcomes[i].outcome.kind = "200_content"}
       IN /\ response = IF ok = {} THEN PyNone ELSE outcomes[Min(ok)].outcome.content
          /\ Len(outcomes) < MAX_RETRIES =>
                outcomes[Len(outcomes)].outcome.kind \in {"200_content", "200_nochoices"}

C5_Witness ==
    /\ pc = "primary_returned"
    /\ Len(outcomes) = 2
    /\ outcomes[1].outcome.kind = "200_nomessage"
    /\ outcomes[2].outcome = Outcome("200_content", PyStr(TextGood))
    /\ response = PyStr(TextGood)

\* C6: get_cached_result on an entry that save_to_cache wrote in full, that
\* nothing has touched since and that is no older than the TTL returns the
\* saved list, element for element.
C6_RoundTrip ==
    (LookupDone /\ LookedAtFresh /\ looked_at.saved # PyNone)
        => (pc = "cached" /\ cached = looked_at.saved)

C6_Witness ==
    /\ pc = "cached"
    /\ LookedAtFresh
    /\ looked_at.at - looked_at.file.mtime = CACHE_TTL_SECONDS
    /\ looked_at.saved = PyList(<<"feat: b", "fix: a">>)
    /\ cached = looked_at.saved

\* C7: a lookup of an entry modified more than 3600 seconds ago returns
\* nothing and removes the file, and a lookup that finds no file returns
\* nothing; a lookup of an entry no older than 3600 seconds leaves the file
\* as it was, modification time included, and returns what was saved.
C7_ExpiryAfterTtl ==
    /\ (LookupDone /\ looked_at.present
           /\ looked_at.at - looked_at.file.mtime > 3600)
          => (pc = "cached" /\ cached = PyNone /\ Key \notin DOMAIN cache)
    /\ (LookupDone /\ looked_at.present
           /\ looked_at.at - looked_at.file.mtime <= 3600)
          => /\ Key \in DOMAIN cache
             /\ cache[Key] = looked_at.file
             /\ looked_at.saved # PyNone => (pc = "cached" /\ cached = looked_at.saved)
    /\ (LookupDone /\ ~looked_at.present) => (pc = "cached" /\ cached = PyNone)

C7_Witness ==
    /\ pc = "cached"
    /\ looked_at.present
    /\ looked_at.at - looked_at.file.mtime = 3601
    /\ looked_at.saved # PyNone
    /\ cached = PyNone
    /\ Key \notin DOMAIN cache

\* C8: whatever the file system answers to the cache write, the request
\* returns its messages.
C8_WriteFailuresSwallowed ==
    effects.saves > 0 =>
        (pc = "returned" /\ result = PyList(Take(messages, num_suggestions)))

\* C9: a lookup that finds no entry, or an entry that is not a complete
\* untouched save, returns a miss and does not raise.
C9_MalformedEntryIsMiss ==
    (LookupDone /\ (~looked_at.present \/ looked_at.saved = PyNone))
        => (pc = "cached" /\ ~Truthy(cached))

\* C10: a request whose lookup finds a complete saved list no older than the
\* TTL returns the subjects of that list in order, and posts nothing, runs
\* no heuristic and writes no entry.
C10_HitReturnsCached ==
    (LookedAtFresh /\ Truthy(looked_at.saved)) =>
        /\ pc \in {"cached", "returned"}
        /\ effects = NoEffects
        /\ Key \in DOMAIN cache /\ cache[Key] = looked_at.file
        /\ pc = "returned" => result = PyList(looked_at.saved.items)

C10_Witness ==
    /\ pc = "returned"
    /\ LookedAtFresh
    /\ Truthy(looked_at.saved)
    /\ result = PyList(looked_at.saved.items)
    /\ effects = NoEffects

\* the request and the other request of the probe have the same inputs
SameInputs ==
    /\ probe.other.diff = diff
    /\ probe.other.files = changed_files
    /\ probe.other.style = style
    /\ probe.other.num = num_suggestions

\* C11: two requests have the same cache key exactly when they have the
\* same diff, the same file list, the same style and the same count.
C11_KeyInjective ==
    pc = "keyed" => ((probe.keys[1] = probe.keys[2]) <=> SameInputs)

\* two requests that differ in the count alone, 1 against 10
C11_Witness ==
    /\ pc = "keyed"
    /\ probe.other = [diff |-> diff, files |-> changed_files, style |-> style,
                      num |-> MAX_NUM]
    /\ num_suggestions = 1
    /\ changed_files # <<>>
    /\ probe.keys[1] # probe.keys[2]


-----------------------------------------------------------------------------
(* Properties of the command (CliSpec) *)

Last(s) == s[Len(s)]

\* the index is identical to HEAD (an unborn HEAD has the empty tree)
NoStagedChanges(r) == r.is_repo /\ r.index = r.head

PastChecks == cli.pc \notin {"check_repo", "check_staged"}

\* C12: with no staged changes (index identical to HEAD, tracked committed
\* files included) generate prints "No staged changes found" and exits with
\* code 1 before any diff retrieval, generation or commit.
C12_NoStagedExitsEarly ==
    (NoStagedChanges(repo) /\ PastChecks) =>
        /\ cli.pc = "done"
        /\ cli.exit_code = 1
        /\ cli.said = "No staged changes found"
        /\ ~cli.retrieved
        /\ cli.generations = 0
        /\ cli.commit_calls = <<>>
        /\ repo.commits = <<>>

Committed == repo.is_repo /\ repo.commits # <<>>
DryRunReported == cli.dry_run /\ cli.reported # <<>>
UserQuit == cli.choices # <<>> /\ Last(cli.choices) \in {"q", "Q"}
FailureCause ==
    \/ ~repo.is_repo
    \/ NoStagedChanges(repo)
    \/ cli.events # {}

\* C13: generate ends with exit code 0 only after a commit, a dry-run report
\* or a quit, and with exit code 1 on each of: not a repository, no staged
\* changes, diff retrieval error, generation error (initial or on r), empty
\* result set, failed commit.
C13_ExitCodes ==
    cli.pc = "done" =>
        /\ cli.exit_code \in {0, 1}
        /\ cli.exit_code = 0 => (Committed \/ DryRunReported \/ UserQuit)
        /\ FailureCause => cli.exit_code = 1

\* C14: choice q or Q at the prompt ends the invocation with exit code 0 and
\* without any call of create_commit, whatever invalid inputs and
\* regenerations came before (the only calls on record are those of earlier
\* numeric choices whose ValueError the loop swallowed).
C14_QuitExitsZero ==
    (cli.choices # <<>> /\ Last(cli.choices) \in {"q", "Q"}) =>
        /\ cli.pc = "done"
        /\ cli.exit_code = 0
        /\ Len(cli.commit_calls) = cli.swallowed
        /\ repo.commits = <<>>

C14_Witness ==
    /\ cli.pc = "done"
    /\ cli.choices = <<"x", "r", "Q">>
    /\ cli.generations = 2
    /\ cli.exit_code = 0

\* C15: with --dry-run no path (auto, numeric selection, edit) calls
\* create_commit, the chosen message is only reported and the exit code is 0;
\* without --dry-run auto mode commits the subject of the first suggestion
\* and never shows the prompt.
C15_DryRunNeverCommits ==
    /\ cli.dry_run =>
          /\ cli.commit_calls = <<>>
          /\ repo.is_repo => repo.commits = <<>>
          /\ cli.selected_msg # "" =>
                /\ cli.pc = "done"
                /\ cli.exit_code = 0
                /\ cli.reported = <<cli.selected_msg>>
    /\ cli.auto => cli.choices = <<>>
    /\ (cli.auto /\ ~cli.dry_run /\ cli.pc = "done" /\ cli.shown # <<>>) =>
          cli.commit_calls = <<cli.shown[1]>>

C15_Witness ==
    /\ cli.dry_run
    /\ cli.pc = "done"
    /\ cli.choices = <<"r", "e">>
    /\ cli.reported = <<"docs: edited">>
    /\ cli.exit_code = 0

NumericChosen ==
    /\ cli.choices # <<>>
    /\ IntOf(Last(cli.choices)).ok
    /\ 1 <= IntOf(Last(cli.choices)).n
    /\ IntOf(Last(cli.choices)).n <= Len(cli.shown)

ChosenSubject == cli.shown[IntOf(Last(cli.choices)).n]

CommitsExactlyChosen ==
    /\ cli.pc = "done"
    /\ Len(cli.commit_calls) = cli.swallowed + 1
    /\ Last(cli.commit_calls) = ChosenSubject
    /\ \/ cli.exit_code = 0 /\ repo.commits = <<ChosenSubject>>
       \/ cli.exit_code = 1 /\ repo.commits = <<>>

SwallowedAttempt ==
    /\ cli.pc = "prompt"
    /\ cli.commit_calls # <<>>
    /\ cli.swallowed = Len(cli.commit_calls)
    /\ Last(cli.commit_calls) = ChosenSubject
    /\ cli.said = "Invalid input, please try again"
    /\ repo.commits = <<>>

-----------------------------------------------------------------------------
(* Properties of get_staged_diff (DiffSpec) *)

\* positions within the first MAX_DIFF_SIZE characters where a line begins
\* with "diff --git" (the whole prefix inside the first MAX_DIFF_SIZE)
HeaderStarts(s) ==
    {p \in 1..(MAX_DIFF_SIZE - 9) :
        /\ p = 1 \/ SubSeq(s, p - 1, p - 1) = "\n"
        /\ SubSeq(s, p, p + 9) = "diff --git"}

\* C17: a staged diff longer than 10,000 characters comes back as at most
\* 10,000 characters: the text before the last line starting with
\* "diff --git" within the first 10,000 characters, or exactly the first
\* 10,000 characters when there is no such line; a diff of at most 10,000
\* characters comes back unchanged.
C17_TruncatesAtLastHeader ==
    probe.kind = "diff_done" =>
        LET s == repo.staged_diff
            HS == HeaderStarts(s)
        IN /\ Len(diff) <= MAX_DIFF_SIZE
           /\ Len(s) <= MAX_DIFF_SIZE => diff = s
           /\ Len(s) > MAX_DIFF_SIZE =>
                 IF HS = {}
                 THEN diff = SubSeq(s, 1, MAX_DIFF_SIZE)
                 ELSE LET p == CHOOSE k \in HS : \A m \in HS : m <= k
                      IN diff = IF p = 1 THEN "" ELSE SubSeq(s, 1, p - 2)

\* the header whose "diff --git" ends exactly at character 10,000
C17_Witness ==
    /\ probe.kind = "diff_done"
    /\ Len(repo.staged_diff) = MAX_DIFF_SIZE + 1
    /\ SubSeq(repo.staged_diff, MAX_DIFF_SIZE - 10, MAX_DIFF_SIZE)
           = "\ndiff --git"
    /\ Len(diff) = MAX_DIFF_SIZE - 11

-----------------------------------------------------------------------------
(* Properties of the fallback path *)

\* the request is for the staged diff of the single added file auth/login.py
LoginAdded ==
    /\ changed_files = <<FileChange("auth/login.py", "added")>>
    /\ StartsWith(diff, "diff --git a/auth/login.py b/auth/login.py\n")

\* both remote clients were asked in this request and gave nothing
RemoteUnavailable ==
    /\ effects.primary_returned
    /\ effects.primary_value = PyNone
    /\ effects.secondary_posts = 1
    /\ effects.secondary_value = PyNone

\* C18: for the single added file auth/login.py, conventional style and both
\* remote endpoints unavailable, the first message returned by
\* generate_commit_messages contains "feat: add login"; and
\* generate_fallback_messages on a single added file gives "feat: add <stem>"
\* as its first subject.
C18_FallbackFeatAddLogin ==
    /\ (pc = "returned" /\ LoginAdded /\ style = "conventional"
            /\ RemoteUnavailable) =>
          /\ result.kind = "list"
          /\ result.items # <<>>
          /\ Contains(result.items[1], "feat: add login")
    /\ (Len(changed_files) = 1 /\ changed_files[1].status = "added") =>
          generate_fallback_messages(changed_files, num_suggestions,
                                     "conventional")[1]
              = "feat: add " \o PathStem(changed_files[1].path)

-----------------------------------------------------------------------------
(* Properties of parse_commit_messages (ParseSpec) *)

\* the lines of the response, and those that are kept: longer than 5
\* characters before and after cleaning
ResponseLines == SplitLines(response.s)
Cleaned(i) == CleanLine(Strip(ResponseLines[i]))
KeptLines ==
    {i \in 1..Len(ResponseLines) :
        Len(Strip(ResponseLines[i])) > 5 /\ Len(Cleaned(i)) > 5}
NthKept(j) == CHOOSE i \in KeptLines : Cardinality({k \in KeptLines : k <= i}) = j

\* C19: parse_commit_messages returns, in input order, the cleaned text of
\* the first n lines longer than 5 characters before and after cleaning
\* (one numeric marker, then one - or *, then surrounding whitespace
\* removed), and never more than n.
C19_FirstNCleanedLines ==
    pc = "parsed" =>
        /\ Len(messages) = Min({num_suggestions, Cardinality(KeptLines)})
        /\ \A j \in 1..Len(messages) : messages[j] = Cleaned(NthKept(j))
        /\ \A j \in 1..Len(messages) : Len(messages[j]) > 5
        /\ (response.s = "1) fix: update file\n- chore: refactor code\n* feat: add feature"
                /\ num_suggestions >= 3) =>
              messages = <<"fix: update file", "chore: refactor code",
                           "feat: add feature">>
        /\ (response.s = "1. abcd\n2) abcde\n- abcdef\n* abcdefg") =>
              messages = Take(<<"abcdef", "abcdefg">>, num_suggestions)

\* two kept lines asked for, a dropped short line between them, more kept
\* lines left unread
C19_Witness ==
    /\ pc = "parsed"
    /\ probe.kind = "parse"
    /\ num_suggestions = 2
    /\ messages = <<"feat: add login", "fix: repair cache">>
    /\ Cardinality(KeptLines) = 3

-----------------------------------------------------------------------------
(* Properties of the heuristic generator called twice (RerunSpec) *)

-----------------------------------------------------------------------------
(* Properties of create_commit (CommitSpec) *)

\* C21: inside a repository create_commit returns false for every commit
\* failure and true for success and never raises; outside a repository it
\* raises "Not a git repository" without attempting a commit.
C21_FailureIsFalse ==
    probe.kind = "commit_done" =>
        IF repo.is_repo
        THEN /\ probe.raised = ""
             /\ probe.value <=> (probe.outcome = "ok")
             /\ probe.value <=> (repo.commits = <<probe.message>>)
        ELSE /\ probe.raised = "ValueError: Not a git repository"
             /\ ~probe.attempted

-----------------------------------------------------------------------------
(* Properties of the rule table (RerunSpec) *)

\* the category the fixed priority order selects for a diff and its files
ExpectedCategory(d, files) ==
    IF is_bugfix(d) THEN "bugfix"
    ELSE IF is_feature(d) THEN "feature"
    ELSE IF is_refactor(d) THEN "refactor"
    ELSE IF has_tests(files) THEN "tests"
    ELSE IF has_docs(files) THEN "docs"
    ELSE IF has_config(files) THEN "config"
    ELSE IF is_security(d) THEN "security"
    ELSE IF is_performance(d) THEN "performance"
    ELSE "default"

\* the category a first message of style st belongs to, read off its text
CategoryOf(msg, st) ==
    IF st = "conventional"
    THEN CASE StartsWith(msg, "fix: ") -> "bugfix"
           [] StartsWith(msg, "feat: implement ") -> "feature"
           [] StartsWith(msg, "refactor: ") -> "refactor"
           [] StartsWith(msg, "test: ") -> "tests"
           [] StartsWith(msg, "docs: ") -> "docs"
           [] StartsWith(msg, "chore: update ") /\ EndsWith(msg, " configuration")
                -> "config"
           [] StartsWith(msg, "security: ") -> "security"
           [] StartsWith(msg, "perf: ") -> "performance"
           [] OTHER -> "default"
    ELSE IF st = "gitmoji"
    THEN CASE StartsWith(msg, ":bug: fix: ") -> "bugfix"
           [] StartsWith(msg, ":sparkles: feat: ") -> "feature"
           [] StartsWith(msg, ":recycle: refactor: ") -> "refactor"
           [] StartsWith(msg, ":white_check_mark: test: ") -> "tests"
           [] StartsWith(msg, ":memo: docs: ") -> "docs"
           [] StartsWith(msg, ":lock: security: ") -> "security"
           [] StartsWith(msg, ":zap: perf: ") -> "performance"
           [] OTHER -> "default"
    ELSE CASE StartsWith(msg, "Fix issue in ") -> "bugfix"
           [] StartsWith(msg, "Add ") /\ EndsWith(msg, " functionality") -> "feature"
           [] StartsWith(msg, "Refactor ") -> "refactor"
           [] OTHER -> "default"

HeuristicRan == probe.kind = "rerun" /\ effects.heuristic_calls > 0

\* C22: in each of the three styles the category of the first message follows
\* the priority bugfix > feature > refactor > tests > docs > config >
\* security > performance > default.
C22_PriorityDecides ==
    (HeuristicRan /\ changed_files # <<>>) =>
        /\ a_messages # <<>>
        /\ CategoryOf(a_messages[1], style) = ExpectedCategory(diff, changed_files)

\* C23: whenever more than one file changed, the candidate list of the
\* heuristic generator holds a summary line naming the number of changed
\* files, in each of the three styles.
C23_MultiFileSummary ==
    (HeuristicRan /\ Len(changed_files) > 1) =>
        \E i \in 1..Len(a_messages) :
            Contains(a_messages[i], ToString(Len(changed_files)) \o " files")

-----------------------------------------------------------------------------
(* Properties of the retry delays of call_llm7_api (Spec) *)

OtherFailures == {"exception", "other", "200_badjson", "200_nomessage"}

\* C24: the delay after attempt k is 2 + k seconds after a 429, on every
\* attempt, and 1 second after another non-200 status or an exception, and
\* then only when a further attempt remains; a 429 on the last attempt
\* sleeps and then returns nothing without another request.
C24_RetryDelays ==
    pc \in {"primary", "primary_returned"} =>
        /\ Len(outcomes) <= MAX_RETRIES
        /\ effects.primary_posts = Len(outcomes)
        /\ \A i \in 1..Len(outcomes) :
              LET kind == outcomes[i].outcome.kind
                  k == i - 1
              IN /\ kind = "429" => outcomes[i].slept = 2 + k
                 /\ kind \in OtherFailures =>
                       outcomes[i].slept = IF k < MAX_RETRIES - 1 THEN 1 ELSE 0
                 /\ kind \in {"200_content", "200_nochoices"} =>
                       outcomes[i].slept = 0
                 /\ (kind \in OtherFailures \cup {"429"} /\ i < MAX_RETRIES) =>
                       (Len(outcomes) > i \/ pc = "primary")
        /\ (pc = "primary_returned" /\ Len(outcomes) = MAX_RETRIES
               /\ outcomes[MAX_RETRIES].outcome.kind \in OtherFailures \cup {"429"}) =>
              response = PyNone

C24_Witness ==
    /\ pc = "primary_returned"
    /\ Len(outcomes) = 2
    /\ outcomes[1].outcome.kind = "other"
    /\ outcomes[1].slept = 1
    /\ outcomes[2].outcome.kind = "429"
    /\ outcomes[2].slept = 3
    /\ effects.primary_posts = 2
    /\ response = PyNone

-----------------------------------------------------------------------------
(* Properties of the prompt loop (CliSpec) *)

InRange(choice, list) ==
    IntOf(choice).ok /\ 1 <= IntOf(choice).n /\ IntOf(choice).n <= Len(list)

\* the step answers the prompt with an input that selects nothing: neither
\* q, r, e nor a number of the list, or e followed by an invalid index
InvalidAnswer ==
    /\ cli.pc = "prompt"
    /\ Len(cli'.choices) = Len(cli.choices) + 1
    /\ LET choice == Last(cli'.choices)
       IN \/ /\ choice \notin {"q", "Q", "r", "R", "e", "E"}
             /\ ~InRange(choice, cli.messages)
          \/ /\ choice \in {"e", "E"}
             /\ Len(cli.messages) > 1
             /\ ~InRange(cli'.edit_choice, cli.messages)

\* C25: an input that is not q, r, e or a number in 1..len(messages), or an
\* invalid index after e, leaves the suggestion list unchanged, makes no
\* commit, no generation (cache access, remote request) and returns to the
\* prompt.
C25_InvalidInputKeepsState ==
    [][InvalidAnswer =>
          /\ cli' = [cli EXCEPT !.choices = cli'.choices,
                                !.edit_choice = cli'.edit_choice]
          /\ cli'.pc = "prompt"
          /\ UNCHANGED <<repo, request, probe, pipeline>>]_vars

C25_Witness ==
    /\ cli.pc = "prompt"
    /\ cli.choices = <<"0", "-1", "e">>
    /\ cli.edit_choice = "3"
    /\ Len(cli.messages) = 2
    /\ cli.generations = 1
    /\ cli.commit_calls = <<>>

-----------------------------------------------------------------------------
(* Properties of the edit mode (CliSpec) *)

\* the edit mode reached the editor: choice e with a valid index
Edited == cli.editor.kind # "none"

InlineOrOriginal == IF cli.editor.inline # "" THEN cli.editor.inline ELSE cli.original
ContentOrOriginal ==
    IF Strip(cli.editor.content) # "" THEN Strip(cli.editor.content)
    ELSE cli.original

\* one commit call with msg (only a report under --dry-run), then the end
UsedOnce(msg) ==
    /\ cli.pc = "done"
    /\ cli.selected_msg = msg
    /\ Last(cli.choices) \in {"e", "E"}
    /\ cli.original \in {cli.shown[i] : i \in 1..Len(cli.shown)}
    /\ IF cli.dry_run
       THEN cli.commit_calls = <<>> /\ cli.reported = <<msg>> /\ cli.exit_code = 0
       ELSE /\ Len(cli.commit_calls) = cli.swallowed + 1
            /\ Last(cli.commit_calls) = msg
            /\ cli.reported = <<>>

\* C26 as stated: after e with a valid index one commit (or report) with the
\* editor's trimmed file content when it is non-empty, the original subject
\* when it is empty, and the inline text (or the original subject) when
\* launching the editor raises.
C26_EditUsesEditorText ==
    Edited =>
        UsedOnce(IF cli.editor.kind = "launch_raises" THEN InlineOrOriginal
                 ELSE ContentOrOriginal)

\* C26 amended: the inline text (or the original subject) is used whenever
\* the try around the editor raises: at the launch, or when the file is
\* read back or deleted, whatever the file then holds.
C26_EditUsesInlineOnAnyFailure ==
    Edited =>
        UsedOnce(IF cli.editor.kind = "edited" THEN ContentOrOriginal
                 ELSE InlineOrOriginal)

C26_Witness ==
    /\ cli.pc = "done"
    /\ cli.choices = <<"r", "e">>
    /\ cli.edit_choice = "2"
    /\ cli.editor = EditorOutcome("edited", "  fix: trimmed \n", "")
    /\ cli.commit_calls = <<"fix: trimmed">>
    /\ cli.exit_code = 0

-----------------------------------------------------------------------------
(* Properties of choice r (RegenSpec) *)

\* the step in which the call made by choice r ends and its result is shown
RegenerationShown ==
    cli.pc = "regenerate" /\ CallInFlight /\ Finished /\ cli'.generations = requests

\* the lookup of the call found the entry an earlier call stored, within the TTL
StoredAndFresh == LookedAtFresh /\ Truthy(looked_at.saved)

\* C27: choice r calls the generation again with the same diff, file list,
\* count and style and makes no commit; when the call returns, the prompt
\* comes back with the list it returned; when the entry stored by the
\* preceding generation is still within the TTL, the call returns, sends no
\* request to either remote service and the same suggestions are shown again.
C27_RegenerateFromCache ==
    [][/\ request' = request
       /\ cli.pc = "regenerate" => cli'.commit_calls = cli.commit_calls /\ repo' = repo
       /\ RegenerationShown /\ pc = "returned"
             => /\ cli'.pc = "prompt"
                /\ cli'.messages = result.items
                /\ cli'.shown = result.items
       /\ RegenerationShown /\ StoredAndFresh
             => /\ pc = "returned"
                /\ effects.primary_posts = 0
                /\ effects.secondary_posts = 0
                /\ cli'.shown = cli.shown]_vars

\* choice r has been answered from the cache after exactly the TTL, and the
\* prompt shows the stored list again
C27_Witness ==
    /\ cli.pc = "prompt"
    /\ cli.choices = <<"r">>
    /\ cli.generations = 2
    /\ StoredAndFresh
    /\ now = CACHE_TTL_SECONDS
    /\ effects = NoEffects
    /\ cli.shown = looked_at.saved.items
    /\ cli.commit_calls = <<>>

-----------------------------------------------------------------------------
(* Properties of two invocations on one key (RaceSpec) *)

\* both invocations generated and wrote, and both have closed the file
BothWrote == \A p \in RaceProcs : probe.procs[p].pc = "done" /\ probe.procs[p].wrote

\* a lookup that read a file holding no complete entry is a miss that does
\* not raise, and the invocation returns the list it generates itself
PartialReadIsMiss ==
    \A p \in RaceProcs :
       probe.procs[p].saw_partial
          => /\ probe.procs[p].pc # "raised"
             /\ probe.procs[p].pc = "done"
                   => probe.procs[p].wrote
                      /\ probe.procs[p].result = PyList(probe.procs[p].msgs)

\* C28: a reader that finds a partially written entry takes it for a miss and
\* goes on to generate; once both writers have finished, the entry file holds
\* the complete list of the writer that wrote last.
C28_LastWriterWins ==
    /\ PartialReadIsMiss
    /\ BothWrote => cache[Key].content = json_dump(probe.procs[probe.last].msgs)

-----------------------------------------------------------------------------
(* Properties of the commit attempt (CliSpec) *)

\* C29: one invocation calls create_commit at most once, whatever the
\* answers at the prompt: once a commit has been attempted, successfully or
\* not, the invocation is over, with no further prompt, generation or commit.
C29_AtMostOneCommitCall ==
    /\ Len(cli.commit_calls) <= 1
    /\ cli.commit_calls # <<>> => cli.pc = "done"

-----------------------------------------------------------------------------
(* Properties of the truncation (DiffSpec) *)

\* C30: truncation never discards the whole diff: for every staged diff of
\* more than MAX_DIFF_SIZE characters, also that of a single large file whose
\* only "diff --git" header within the first MAX_DIFF_SIZE characters is its
\* first line, get_staged_diff returns a non-empty prefix of the diff.
C30_TruncationKeepsPrefix ==
    (probe.kind = "diff_done" /\ Len(repo.staged_diff) > MAX_DIFF_SIZE)
        => /\ diff # ""
           /\ Len(diff) <= Len(repo.staged_diff)
           /\ diff = SubSeq(repo.staged_diff, 1, Len(diff))

====
